---- MODULE Spec2Model ----
(***************************************************************************)
(* Model of the zkvc proof-exchange server (zkvc/src/server.rs): the field *)
(* value codec used on the wire, ServerApp's builder, and the pipeline of  *)
(* ServerApp::verify_handler for one request at a time on the /verify      *)
(* endpoint.  ServerApp holds no mutable state once it is serving, so one  *)
(* in-flight request shows every behaviour of the handler.                 *)
(***************************************************************************)
EXTENDS Integers, Sequences, FiniteSets, TLC

(***************************************************************************)
(* Bounds of the model.                                                    *)
(***************************************************************************)
\* longest public_inputs array a request carries
MaxInputs == 2

\* most calls a constraint generator makes on its context
MaxCalls == 3

(***************************************************************************)
(* The scalar field Fr, scaled down: a prime modulus that needs            *)
(* ModulusBits bits, as the 255-bit modulus of BLS12-381 needs 255 of the  *)
(* 256 bits of its representation.                                         *)
(***************************************************************************)
Modulus == 13
ModulusBits == 4

Pow2(n) == 2 ^ n

(***************************************************************************)
(* Strings are sequences of one-character strings.                         *)
(***************************************************************************)
DigitChars == {"0", "1", "2", "3", "4", "5", "6", "7", "8", "9"}

DigitVal(c) ==
    CASE c = "0" -> 0 [] c = "1" -> 1 [] c = "2" -> 2 [] c = "3" -> 3
      [] c = "4" -> 4 [] c = "5" -> 5 [] c = "6" -> 6 [] c = "7" -> 7
      [] c = "8" -> 8 [] c = "9" -> 9

DigitChar(d) ==
    CASE d = 0 -> "0" [] d = 1 -> "1" [] d = 2 -> "2" [] d = 3 -> "3"
      [] d = 4 -> "4" [] d = 5 -> "5" [] d = 6 -> "6" [] d = 7 -> "7"
      [] d = 8 -> "8" [] d = 9 -> "9"

\* results of fallible operations: Ok(val) or Err(err)
Ok(v) == [ok |-> TRUE, val |-> v, err |-> ""]
Err(e) == [ok |-> FALSE, val |-> 0, err |-> e]

E_DECIMAL == "Failed to parse decimal string"
E_FIELD == "Failed to parse field element"

\* BigUint::to_string: canonical decimal, "0" for zero
RECURSIVE ToDecimal(_)
ToDecimal(n) ==
    IF n < 10 THEN <<DigitChar(n)>>
    ELSE Append(ToDecimal(n \div 10), DigitChar(n % 10))

\* BigUint::parse_bytes(s, 10): an optional single leading '+', then digits
\* with '_' separators skipped (not in first place); None otherwise.
\* The value -1 stands for None.
RECURSIVE DigitsValue(_, _)
DigitsValue(s, acc) ==
    IF s = <<>> THEN acc
    ELSE IF Head(s) = "_" THEN DigitsValue(Tail(s), acc)
    ELSE IF Head(s) \in DigitChars
         THEN DigitsValue(Tail(s), 10 * acc + DigitVal(Head(s)))
    ELSE -1

ParseBytes(s) ==
    LET t == IF s # <<>> /\ Head(s) = "+"
                  /\ ~(Len(s) > 1 /\ s[2] = "+")
             THEN Tail(s) ELSE s
    IN  IF t = <<>> THEN -1
        ELSE IF Head(t) = "_" THEN -1
        ELSE IF \A i \in 1..Len(t) : t[i] = "_" THEN 0
        ELSE DigitsValue(t, 0)

\* a range test that leaves out the largest element
FromRandomBytesBelowLargest(n) ==
    LET m == n % Pow2(ModulusBits)
    IN  IF m < Modulus - 1 THEN m ELSE -1

\* F::from_random_bytes on the little-endian bytes of n: the bits above the
\* modulus width are masked off, and the rest must be below the modulus
FromRandomBytes(n) ==
    LET m == n % Pow2(ModulusBits)
    IN  IF m < Modulus THEN m ELSE -1

FieldToStringLastDigit(f) == ToDecimal(f % 10)

FieldToString(f) == ToDecimal(f)

FieldFromString(s) ==
    LET big_int == ParseBytes(s)
    IN  IF big_int = -1 THEN Err(E_DECIMAL)
        ELSE LET f == FromRandomBytes(big_int)
             IN  IF f = -1 THEN Err(E_FIELD) ELSE Ok(f)


(***************************************************************************)
(* The wire format.                                                        *)
(***************************************************************************)
\* strings a client may put into public_inputs
InputStrings ==
    { <<"5">>, <<"7">>, <<"0", "5">>, <<"2", "1">>, <<"1", "4">>, <<"x">> }

RECURSIVE SeqsUpTo(_, _)
SeqsUpTo(S, n) ==
    IF n = 0 THEN { <<>> }
    ELSE LET shorter == SeqsUpTo(S, n - 1)
         IN  shorter \cup { Append(q, x) : q \in shorter, x \in S }

ClientIds == {"alice", "bob"}

\* Base64Proof: text that is not base64, base64 of bytes that are no proof,
\* or the base64 encoding of a Groth16 proof.  A proof is modelled by the
\* statement (the public-input vector) it was made for.
Statements == { <<5, 7>>, <<7, 5>> }

Base64Proofs ==
    { [enc |-> "not_base64", stmt |-> <<>>],
      [enc |-> "not_a_proof", stmt |-> <<>>] }
    \cup { [enc |-> "proof", stmt |-> s] : s \in Statements }

\* ProofRequest
ProofRequests ==
    [client_id : ClientIds,
     proof : Base64Proofs,
     public_inputs : SeqsUpTo(InputStrings, MaxInputs)]

NoRequest ==
    [client_id |-> "", proof |-> [enc |-> "none", stmt |-> <<>>],
     public_inputs |-> <<>>]

\* request bodies that serde cannot deserialize into a ProofRequest
MalformedBodies ==
    {"not_json", "no_client_id", "no_proof", "no_public_inputs"}

\* what arrives at POST /verify
Payloads ==
    { [kind |-> "json", request |-> r] : r \in ProofRequests }
    \cup { [kind |-> k, request |-> NoRequest] : k \in MalformedBodies }

\* VerificationResponse with the HTTP status it is sent under;
\* "Rejected" is the framework's own answer, not a VerificationResponse
Response(status, type, result, text) ==
    [status |-> status, type |-> type, result |-> result, text |-> text]

NoResponse == Response(0, "None", <<>>, "")

\* one invocation of a registered handler: its arguments (the inputs of
\* the valid-proof handler, the reason or error of the other two) and
\* what it returned
Call(handler, client_id, inputs, text, returned) ==
    [handler |-> handler, client_id |-> client_id,
     inputs |-> inputs, text |-> text, returned |-> returned]

\* what a handler closure may return
HandlerResults == {"Ok", "Err"}

E_VALID_HANDLER == "valid proof handler error"
E_INVALID_HANDLER == "invalid proof handler error"
E_BASE64 == "Invalid byte"
E_PROOF == "the input buffer contained invalid data"
E_VERIFIER == "the verifying key was malformed"
E_JSON == "Json deserialize error"

(***************************************************************************)
(* The loaded verifying key: bound to a circuit shape with two public      *)
(* inputs.                                                                 *)
(***************************************************************************)
VerifyingKey == [num_inputs |-> Len(<<5, 7>>)]

\* Result<bool, anyhow::Error>
VOk(b) == [ok |-> TRUE, val |-> b, err |-> ""]
VErr(e) == [ok |-> FALSE, val |-> FALSE, err |-> e]

\* Groth16::verify: an error when the number of inputs does not fit the
\* key, else whether the proof proves exactly these inputs
Groth16Verify(vk, inputs, proof) ==
    IF Len(inputs) # vk.num_inputs THEN VErr(E_VERIFIER)
    ELSE VOk(proof.stmt = inputs)

\* a collect that drops the strings that do not decode (filter_map)
RECURSIVE CollectInputsSkipping(_)
CollectInputsSkipping(strs) ==
    IF strs = <<>> THEN [ok |-> TRUE, val |-> <<>>, err |-> ""]
    ELSE LET f == FieldFromString(Head(strs))
             rest == CollectInputsSkipping(Tail(strs))
         IN  IF ~f.ok THEN rest
             ELSE [rest EXCEPT !.val = <<f.val>> \o rest.val]

\* .iter().map(field_from_string).collect::<Result<Vec<_>, _>>():
\* the decoded values in order, or the first error
RECURSIVE CollectInputs(_)
CollectInputs(strs) ==
    IF strs = <<>> THEN [ok |-> TRUE, val |-> <<>>, err |-> ""]
    ELSE LET f == FieldFromString(Head(strs))
         IN  IF ~f.ok THEN [ok |-> FALSE, val |-> <<>>, err |-> f.err]
             ELSE LET rest == CollectInputs(Tail(strs))
                  IN  IF ~rest.ok THEN rest
                      ELSE [rest EXCEPT !.val = <<f.val>> \o rest.val]

\* a verify that reports proof bytes it cannot deserialize as a rejected
\* proof
ServerVerifyBadProofIsFalse(request) ==
    IF request.proof.enc = "not_base64"
    THEN [result |-> VErr(E_BASE64), calls |-> <<>>]
    ELSE IF request.proof.enc = "not_a_proof"
    THEN [result |-> VOk(FALSE), calls |-> <<>>]
    ELSE LET ins == CollectInputs(request.public_inputs)
         IN  IF ~ins.ok
             THEN [result |-> VErr(ins.err), calls |-> <<>>]
             ELSE LET r == Groth16Verify(VerifyingKey, ins.val, request.proof)
                  IN  [result |-> r,
                       calls |-> << [vk |-> VerifyingKey, inputs |-> ins.val,
                                     proof |-> request.proof, result |-> r] >>]

\* ServerApp::verify: the result, and the verifier invocations it made
ServerVerify(request) ==
    IF request.proof.enc = "not_base64"
    THEN [result |-> VErr(E_BASE64),
          calls |-> <<>>]
    ELSE IF request.proof.enc = "not_a_proof"
    THEN [result |-> VErr(E_PROOF),
          calls |-> <<>>]
    ELSE LET ins == CollectInputs(request.public_inputs)
         IN  IF ~ins.ok
             THEN [result |-> VErr(ins.err),
                   calls |-> <<>>]
             ELSE LET r == Groth16Verify(VerifyingKey, ins.val, request.proof)
                  IN  [result |-> r,
                       calls |-> << [vk |-> VerifyingKey, inputs |-> ins.val,
                                     proof |-> request.proof, result |-> r] >>]


(***************************************************************************)
(* The arms of ServerApp::verify_handler.  Each gives the handler calls    *)
(* it makes and the response it returns; registered tells whether the      *)
(* handler of the arm is Some, hres is what the handler returns.           *)
(***************************************************************************)
REASON == "Proof verification failed"

Arm(calls, response) == [invoked |-> calls, response |-> response]

\* Err(e) of the input decoding
DecodeErrorArm(request, e, registered, hres) ==
    Arm(IF registered
        THEN << Call("error", request.client_id, <<>>, e, hres) >>
        ELSE <<>>,
        Response(500, "Error", <<>>, e))

\* a valid-proof arm that hands a failure of its handler on to the error
\* handler
ValidArmThenError(request, ins, registered, hres) ==
    LET calls == IF registered
                 THEN << Call("valid", request.client_id, ins, "", hres) >>
                 ELSE <<>>
    IN  IF registered /\ hres = "Err"
        THEN Arm(Append(calls, Call("error", request.client_id, <<>>,
                                    E_VALID_HANDLER, "Ok")),
                 Response(500, "Error", <<>>, E_VALID_HANDLER))
        ELSE Arm(calls, Response(200, "Valid", request.public_inputs, ""))

\* a valid-proof arm that only logs a failure of its handler
ValidArmIgnoringError(request, ins, registered, hres) ==
    Arm(IF registered
        THEN << Call("valid", request.client_id, ins, "", hres) >>
        ELSE <<>>,
        Response(200, "Valid", request.public_inputs, ""))

\* a valid-proof arm that echoes the decoded inputs, encoded again
ValidArmEchoingDecoded(request, ins, registered, hres) ==
    LET calls == IF registered
                 THEN << Call("valid", request.client_id, ins, "", hres) >>
                 ELSE <<>>
    IN  IF registered /\ hres = "Err"
        THEN Arm(calls, Response(500, "Error", <<>>, E_VALID_HANDLER))
        ELSE Arm(calls,
                 Response(200, "Valid",
                          [i \in 1..Len(ins) |-> FieldToString(ins[i])], ""))

\* Ok(true)
ValidArm(request, ins, registered, hres) ==
    LET calls == IF registered
                 THEN << Call("valid", request.client_id, ins, "", hres) >>
                 ELSE <<>>
    IN  IF registered /\ hres = "Err"
        THEN Arm(calls, Response(500, "Error", <<>>, E_VALID_HANDLER))
        ELSE Arm(calls, Response(200, "Valid", request.public_inputs, ""))

\* an invalid-proof arm that answers with the status text instead of the
\* reason it gave its handler
InvalidArmOtherReason(request, registered, hres) ==
    LET reason == REASON
        calls == IF registered
                 THEN << Call("invalid", request.client_id, <<>>, reason,
                              hres) >>
                 ELSE <<>>
    IN  IF registered /\ hres = "Err"
        THEN Arm(calls, Response(500, "Error", <<>>, E_INVALID_HANDLER))
        ELSE Arm(calls, Response(400, "Invalid", <<>>, "Bad Request"))

\* an invalid-proof arm that fails when no handler is registered
InvalidArmRequiringHandler(request, registered, hres) ==
    LET reason == REASON
        calls == IF registered
                 THEN << Call("invalid", request.client_id, <<>>, reason,
                              hres) >>
                 ELSE <<>>
    IN  IF ~registered \/ hres = "Err"
        THEN Arm(calls, Response(500, "Error", <<>>, E_INVALID_HANDLER))
        ELSE Arm(calls, Response(400, "Invalid", <<>>, reason))

\* an invalid-proof arm that answers Invalid whatever its handler returned
InvalidArmSwallowingError(request, registered, hres) ==
    LET reason == REASON
        calls == IF registered
                 THEN << Call("invalid", request.client_id, <<>>, reason,
                              hres) >>
                 ELSE <<>>
    IN  Arm(calls, Response(400, "Invalid", <<>>, reason))

\* Ok(false)
InvalidArm(request, registered, hres) ==
    LET reason == REASON
        calls == IF registered
                 THEN << Call("invalid", request.client_id, <<>>, reason,
                              hres) >>
                 ELSE <<>>
    IN  IF registered /\ hres = "Err"
        THEN Arm(calls, Response(500, "Error", <<>>, E_INVALID_HANDLER))
        ELSE Arm(calls, Response(400, "Invalid", <<>>, reason))

\* a verify-error arm that answers without calling the error handler
VerifyErrorArmNoHandler(request, e, registered, hres) ==
    Arm(<<>>, Response(500, "Error", <<>>, e))

\* a verify-error arm that reports a failure of the error handler in place
\* of the error it was called with
VerifyErrorArmReportingHandler(request, e, registered, hres) ==
    Arm(IF registered
        THEN << Call("error", request.client_id, <<>>, e, hres) >>
        ELSE <<>>,
        Response(500, "Error", <<>>,
                 IF registered /\ hres = "Err"
                 THEN "error handler error" ELSE e))

\* Err(e) of app.verify
VerifyErrorArm(request, e, registered, hres) ==
    Arm(IF registered
        THEN << Call("error", request.client_id, <<>>, e, hres) >>
        ELSE <<>>,
        Response(500, "Error", <<>>, e))

\* a match that takes every result other than Ok(true) for a rejection
MatchVerifyOrFalse(result) ==
    IF result.ok /\ result.val THEN "Valid" ELSE "Invalid"

\* match app.verify(&request): the arm taken
MatchVerify(result) ==
    IF ~result.ok THEN "Error"
    ELSE IF result.val THEN "Valid" ELSE "Invalid"

\* the Json extractor's answer to a body it cannot deserialize; run
\* installs no error handler for it, so the framework answers by itself
\* with the status of its JsonPayloadError
JsonRejectStatuses(kind) ==
    IF kind = "not_json" THEN {400} ELSE {400, 422}

(***************************************************************************)
(* State.                                                                  *)
(***************************************************************************)
VARIABLES
    valid_proof_handler,    \* ServerApp.valid_proof_handler is Some
    invalid_proof_handler,  \* ServerApp.invalid_proof_handler is Some
    error_handler,          \* ServerApp.error_handler is Some
    serving,                \* run was called: the endpoint accepts requests
    pc,                     \* where the request in flight is
    payload,                \* the body of the request in flight
    inputs,                 \* verify_handler's local inputs
    verified,               \* the result of app.verify, or the decode error
    visited,                \* the states the request went through
    verifier_calls,         \* invocations of Groth16::verify for the request
    invoked,                \* handler invocations for the request
    response                \* the response sent for the request

vars ==
    << valid_proof_handler, invalid_proof_handler, error_handler, serving,
       pc, payload, inputs, verified, visited, verifier_calls, invoked,
       response >>

handlers == << valid_proof_handler, invalid_proof_handler, error_handler >>

\* the example servers
VARIABLES
    program,    \* which example server runs
    session,    \* AppState.product, or AppState.vector
    mutex,      \* who holds the mutex of AppState.vector
    worker,     \* per worker: where it is, and its locals
    history     \* the values the session had, oldest first

svars == << program, session, mutex, worker, history >>

\* the client: a circuit being synthesized and its proof request
VARIABLES
    ctx_public_inputs,  \* ZkCircuitContext.public_inputs
    cs,                 \* the variables allocated in the constraint system
    calls,              \* the calls the generator made on the context
    client_pc,          \* where generate_proof_request is
    shared_inputs,      \* ZkCircuit.public_inputs, shared with the client
    sent,               \* ProofRequest.public_inputs
    proof_request,      \* the ProofRequest generate_proof_request returns
    decoded,            \* the server's decoding of the request's inputs
    circuit             \* the instance the ZkCircuit wraps

cvars ==
    << ctx_public_inputs, cs, calls, client_pc, shared_inputs, sent,
       proof_request, decoded, circuit >>

\* the key files and the two applications started from them
VARIABLES
    files,          \* what is at the proving key path and the verifying key path
    server_app,     \* the ServerApp: absent, failed to build, or built
    client_app,     \* the ClientApp and the call in progress on it
    wire            \* what was transmitted to the server, and its answer

avars == << files, server_app, client_app, wire >>

\* the first revision of the library (src/src): one proof request from the
\* client's stored inputs to the server's decoded ones
VARIABLES
    legacy

lvars == << legacy >>

\* what the steps of one part leave alone
not_pipeline == << svars, cvars, avars, lvars >>
not_servers == << vars, cvars, avars, lvars >>
not_client == << vars, svars, avars, lvars >>
not_apps == << vars, svars, cvars, lvars >>
not_legacy == << vars, svars, cvars, avars >>

NoPayload == [kind |-> "none", request |-> NoRequest]

\* ServerApp::new: the key is loaded, no handler is registered
Init ==
    /\ valid_proof_handler = FALSE
    /\ invalid_proof_handler = FALSE
    /\ error_handler = FALSE
    /\ serving = FALSE
    /\ pc = "Idle"
    /\ payload = NoPayload
    /\ inputs = <<>>
    /\ verified = VOk(FALSE)
    /\ visited = <<>>
    /\ verifier_calls = <<>>
    /\ invoked = <<>>
    /\ response = NoResponse
    /\ program = "none"
    /\ session = <<>>
    /\ mutex = "free"
    /\ worker = <<>>
    /\ history = <<>>
    /\ ctx_public_inputs = <<>>
    /\ cs = <<>>
    /\ calls = <<>>
    /\ client_pc = "Off"
    /\ shared_inputs = <<>>
    /\ sent = <<>>
    /\ proof_request = <<>>
    /\ circuit = <<>>
    /\ decoded = Ok(<<>>)
    /\ files = <<>>
    /\ server_app = <<>>
    /\ client_app = <<>>
    /\ wire = <<>>
    /\ legacy = <<>>

request == payload.request

WithValidProofHandler ==
    /\ ~serving
    /\ valid_proof_handler' = TRUE
    /\ UNCHANGED << invalid_proof_handler, error_handler, serving, pc,
                    payload, inputs, verified, visited, verifier_calls,
                    invoked, response >>
    /\ UNCHANGED not_pipeline

WithInvalidProofHandler ==
    /\ ~serving
    /\ invalid_proof_handler' = TRUE
    /\ UNCHANGED << valid_proof_handler, error_handler, serving, pc,
                    payload, inputs, verified, visited, verifier_calls,
                    invoked, response >>
    /\ UNCHANGED not_pipeline

WithErrorHandler ==
    /\ ~serving
    /\ error_handler' = TRUE
    /\ UNCHANGED << valid_proof_handler, invalid_proof_handler, serving, pc,
                    payload, inputs, verified, visited, verifier_calls,
                    invoked, response >>
    /\ UNCHANGED not_pipeline

Run ==
    /\ ~serving
    /\ serving' = TRUE
    /\ UNCHANGED << handlers, pc, payload, inputs, verified, visited,
                    verifier_calls, invoked, response >>
    /\ UNCHANGED not_pipeline

\* a POST to /verify arrives and the Json extractor runs; verify_handler
\* is entered only with a deserialized ProofRequest
Receive(p) ==
    /\ serving
    /\ pc = "Idle"
    /\ payload' = p
    /\ IF p.kind = "json"
       THEN /\ pc' = "Decoding"
            /\ visited' = << "Decoding" >>
            /\ response' = NoResponse
       ELSE /\ pc' = "Responded"
            /\ visited' = <<>>
            /\ \E s \in JsonRejectStatuses(p.kind) :
                   response' = Response(s, "Rejected", <<>>, E_JSON)
    /\ UNCHANGED << handlers, serving, inputs, verified, verifier_calls,
                    invoked >>
    /\ UNCHANGED not_pipeline

\* the decoding of public_inputs at the head of verify_handler; a failure
\* is answered on the spot
Decode ==
    /\ pc = "Decoding"
    /\ LET r == CollectInputs(request.public_inputs)
       IN  IF r.ok
           THEN /\ inputs' = r.val
                /\ pc' = "Verifying"
                /\ visited' = Append(visited, "Verifying")
                /\ UNCHANGED << verified, invoked, response >>
           ELSE /\ verified' = VErr(r.err)
                /\ visited' = Append(visited, "Error")
                /\ pc' = "Responded"
                /\ \E hres \in HandlerResults :
                       LET arm == DecodeErrorArm(request, r.err,
                                                 error_handler, hres)
                       IN  /\ invoked' = invoked \o arm.invoked
                           /\ response' = arm.response
                /\ UNCHANGED inputs
    /\ UNCHANGED << handlers, serving, payload, verifier_calls >>
    /\ UNCHANGED not_pipeline

\* app.verify(&request) and the match on its result
Verify ==
    /\ pc = "Verifying"
    /\ LET v == ServerVerify(request)
       IN  /\ verified' = v.result
           /\ verifier_calls' = verifier_calls \o v.calls
           /\ pc' = MatchVerify(v.result)
           /\ visited' = Append(visited, MatchVerify(v.result))
    /\ UNCHANGED << handlers, serving, payload, inputs, invoked, response >>
    /\ UNCHANGED not_pipeline

Respond(arm) ==
    /\ invoked' = invoked \o arm.invoked
    /\ response' = arm.response
    /\ pc' = "Responded"
    /\ UNCHANGED << handlers, serving, payload, inputs, verified, visited,
                    verifier_calls >>
    /\ UNCHANGED not_pipeline

Valid ==
    /\ pc = "Valid"
    /\ \E hres \in HandlerResults :
           Respond(ValidArm(request, inputs, valid_proof_handler, hres))

Invalid ==
    /\ pc = "Invalid"
    /\ \E hres \in HandlerResults :
           Respond(InvalidArm(request, invalid_proof_handler, hres))

Error ==
    /\ pc = "Error"
    /\ \E hres \in HandlerResults :
           Respond(VerifyErrorArm(request, verified.err, error_handler, hres))

\* the response is sent; the server is ready for the next request
Finish ==
    /\ pc = "Responded"
    /\ pc' = "Idle"
    /\ payload' = NoPayload
    /\ inputs' = <<>>
    /\ verified' = VOk(FALSE)
    /\ visited' = <<>>
    /\ verifier_calls' = <<>>
    /\ invoked' = <<>>
    /\ response' = NoResponse
    /\ UNCHANGED << handlers, serving >>
    /\ UNCHANGED not_pipeline

Next ==
    \/ WithValidProofHandler
    \/ WithInvalidProofHandler
    \/ WithErrorHandler
    \/ Run
    \/ \E p \in Payloads : Receive(p)
    \/ Decode
    \/ Verify
    \/ Valid
    \/ Invalid
    \/ Error
    \/ Finish

TypeOK ==
    /\ pc \in {"Idle", "Decoding", "Verifying", "Valid", "Invalid", "Error",
               "Responded"}
    /\ payload \in Payloads \cup {NoPayload}


(***************************************************************************)
(* The example servers (examples/factorization, examples/matrix-           *)
(* multiplication): a ServerApp whose valid-proof handler rotates the      *)
(* challenge held in AppState behind a mutex, and a second endpoint that   *)
(* serves the challenge.  Requests are handled by concurrent workers; what *)
(* matters of the pipeline above is the arm it takes and the inputs it     *)
(* hands to the valid-proof handler.                                       *)
(***************************************************************************)
\* the largest u64, scaled down: below the modulus, as 2^64 - 1 is below
\* the modulus of Fr
U64_MAX == 9

\* the width m of the matrix, the length of the challenge vector
MatrixWidth == 2

Workers == {"w1", "w2"}

\* str::parse::<u64>: an optional '+', then digits only, within range
\* (-1 stands for Err)
ParseU64(s) ==
    LET t == IF s # <<>> /\ Head(s) = "+" THEN Tail(s) ELSE s
    IN  IF t = <<>> \/ \E i \in 1..Len(t) : t[i] \notin DigitChars THEN -1
        ELSE LET n == DigitsValue(t, 0)
             IN  IF n > U64_MAX THEN -1 ELSE n

\* generate_two_primes and their product
Primes == {2, 3}
Products == { p1 * p2 : p1, p2 \in Primes }

\* generate_challenge_vector
ChallengeValues == {0, 1}
ChallengeVectors == [1..MatrixWidth -> ChallengeValues]

\* public_inputs.iter().map(field_to_string).collect()
StringInputs(ins) == [i \in 1..Len(ins) |-> FieldToString(ins[i])]

\* a handler that reads the product from the last public input
ProvedProductLast(ins) ==
    IF ins = <<>> THEN -1 ELSE ParseU64(StringInputs(ins)[Len(ins)])

\* string_inputs.get(0) parsed as u64 (-1: no input, or not a u64)
ProvedProduct(ins) ==
    IF ins = <<>> THEN -1 ELSE ParseU64(StringInputs(ins)[1])

\* filter_map(|s| s.parse().ok()).collect()
RECURSIVE FilterParse(_)
FilterParse(strs) ==
    IF strs = <<>> THEN <<>>
    ELSE LET n == ParseU64(Head(strs))
         IN  IF n = -1 THEN FilterParse(Tail(strs))
             ELSE <<n>> \o FilterParse(Tail(strs))

\* string_inputs.split_at(m).0, parsed: the vector the proof is taken to be
\* about (needs Len(ins) >= m)
ProvedVector(ins, m) == FilterParse(SubSeq(StringInputs(ins), 1, m))

\* inputs of verified proofs that reach the factorization handler
FactInputs ==
    { <<>>, <<12>> } \cup { <<v>> : v \in Products }
    \cup { <<12, v>> : v \in Products }

\* values of the Poseidon hash of the private matrix: a field element that
\* is no u64, and one that is
MatrixHashes == {12, 1}

\* the public inputs MatrixMultiplicationCircuit declares, in order: the
\* hash of the matrix, the vector, the result (here of the zero matrix with
\* one row)
CircuitPublicInputs(matrix_hash, public_vector) ==
    << matrix_hash >> \o public_vector \o << 0 >>

\* inputs of verified proofs that reach the matrix handler: those of the
\* circuit, those of a key whose inputs start with the vector, and too few
MatrixInputs ==
    { CircuitPublicInputs(h, v) : h \in MatrixHashes, v \in ChallengeVectors }
    \cup { v \o << 0 >> : v \in ChallengeVectors }
    \cup { << 1 >> }

\* a request as a worker sees it: the arm verify_handler takes, and the
\* decoded inputs
Job(kind, ins) == [kind |-> kind, ins |-> ins]

OtherJobs == { Job(k, <<>>) : k \in {"Invalid", "Error", "Challenge"} }
FactJobs == { Job("Valid", ins) : ins \in FactInputs } \cup OtherJobs
MatrixJobs == { Job("Valid", ins) : ins \in MatrixInputs } \cup OtherJobs

IdleWorker ==
    [pc |-> "Idle", job |-> Job("None", <<>>), proved |-> <<>>,
     expected |-> <<>>, fresh |-> <<>>, copy |-> <<>>, wrote |-> FALSE]

\* the products are kept as vectors of length one
AsValue(x) == << x >>

InitServers ==
    /\ program \in {"factorization", "matrix"}
    /\ session \in IF program = "factorization"
                   THEN { AsValue(p) : p \in Products }
                   ELSE ChallengeVectors
    /\ mutex = "free"
    /\ worker = [w \in Workers |-> IdleWorker]
    /\ history = << session >>
    /\ valid_proof_handler = TRUE
    /\ invalid_proof_handler = TRUE
    /\ error_handler = TRUE
    /\ serving = TRUE
    /\ pc = "Idle"
    /\ payload = NoPayload
    /\ inputs = <<>>
    /\ verified = VOk(FALSE)
    /\ visited = <<>>
    /\ verifier_calls = <<>>
    /\ invoked = <<>>
    /\ response = NoResponse
    /\ ctx_public_inputs = <<>>
    /\ cs = <<>>
    /\ calls = <<>>
    /\ client_pc = "Off"
    /\ shared_inputs = <<>>
    /\ sent = <<>>
    /\ proof_request = <<>>
    /\ circuit = <<>>
    /\ decoded = Ok(<<>>)
    /\ files = <<>>
    /\ server_app = <<>>
    /\ client_app = <<>>
    /\ wire = <<>>
    /\ legacy = <<>>

\* a lock that is granted whoever holds it
MutexIgnored == mutex \in {"free"} \cup Workers

\* whether the mutex can be taken
MutexFree == mutex = "free"

\* a request reaches a worker
Accept(w, job) ==
    /\ worker[w].pc = "Idle"
    /\ job \in IF program = "factorization" THEN FactJobs ELSE MatrixJobs
    /\ worker' = [worker EXCEPT ![w].pc = job.kind, ![w].job = job]
    /\ UNCHANGED not_servers
    /\ UNCHANGED << program, session, mutex, history >>

\* factorization: the valid-proof handler up to its comparison; the lock
\* is held for the read of the product only
FactValid(w) ==
    /\ program = "factorization"
    /\ worker[w].pc = "Valid"
    /\ LET p == ProvedProduct(worker[w].job.ins)
       IN  IF p = -1
           THEN worker' = [worker EXCEPT ![w].pc = "Done"]
           ELSE worker' =
                    [worker EXCEPT
                        ![w].proved = AsValue(p),
                        ![w].expected = session,
                        ![w].pc = IF AsValue(p) = session
                                  THEN "Write" ELSE "Done"]
    /\ UNCHANGED not_servers
    /\ UNCHANGED << program, session, mutex, history >>

\* factorization: a new product is generated and stored under a second
\* lock
FactWrite(w) ==
    /\ program = "factorization"
    /\ worker[w].pc = "Write"
    /\ \E new \in Products :
           /\ session' = AsValue(new)
           /\ history' = Append(history, AsValue(new))
           /\ worker' = [worker EXCEPT ![w].fresh = AsValue(new),
                                       ![w].wrote = TRUE,
                                       ![w].pc = "Done"]
    /\ UNCHANGED not_servers
    /\ UNCHANGED << program, mutex >>

\* factorization: get_challenge
FactChallenge(w) ==
    /\ program = "factorization"
    /\ worker[w].pc = "Challenge"
    /\ worker' = [worker EXCEPT ![w].copy = session, ![w].pc = "Done"]
    /\ UNCHANGED not_servers
    /\ UNCHANGED << program, session, mutex, history >>

\* handlers for invalid proofs and errors that draw a new challenge
LogAndRotate(w) ==
    /\ worker[w].pc \in {"Invalid", "Error"}
    /\ worker' = [worker EXCEPT ![w].pc = "Done"]
    /\ \E new \in { history[1] } \cup { AsValue(p) : p \in Products } :
           /\ Len(new) = Len(session)
           /\ session' = new
           /\ history' = Append(history, new)
    /\ UNCHANGED not_servers
    /\ UNCHANGED << program, mutex >>

\* the invalid-proof handler and the error handler of both servers
LogOnly(w) ==
    /\ worker[w].pc \in {"Invalid", "Error"}
    /\ worker' = [worker EXCEPT ![w].pc = "Done"]
    /\ UNCHANGED not_servers
    /\ UNCHANGED << program, session, mutex, history >>

\* matrix: split_at(m), which panics on fewer than m inputs, and the
\* parsing of the vector half
MatrixValid(w) ==
    /\ program = "matrix"
    /\ worker[w].pc = "Valid"
    /\ IF Len(worker[w].job.ins) < MatrixWidth
       THEN worker' = [worker EXCEPT ![w].pc = "Panicked"]
       ELSE worker' =
                [worker EXCEPT
                    ![w].proved = ProvedVector(worker[w].job.ins,
                                               MatrixWidth),
                    ![w].pc = "Lock"]
    /\ UNCHANGED not_servers
    /\ UNCHANGED << program, session, mutex, history >>

\* matrix: vector.lock() in the handler and in get_challenge
MatrixLock(w) ==
    /\ program = "matrix"
    /\ worker[w].pc \in {"Lock", "Challenge"}
    /\ MutexFree
    /\ mutex' = w
    /\ worker' = [worker EXCEPT
                     ![w].pc = IF worker[w].pc = "Lock"
                               THEN "Compare" ELSE "Copy"]
    /\ UNCHANGED not_servers
    /\ UNCHANGED << program, session, history >>

\* matrix: the comparison with the expected vector, under the lock
MatrixCompare(w) ==
    /\ program = "matrix"
    /\ worker[w].pc = "Compare"
    /\ IF worker[w].proved = session
       THEN \E new \in ChallengeVectors :
                worker' = [worker EXCEPT ![w].expected = session,
                                         ![w].fresh = new,
                                         ![w].copy = <<>>,
                                         ![w].pc = "Write"]
       ELSE worker' = [worker EXCEPT ![w].expected = session,
                                     ![w].pc = "Unlock"]
    /\ UNCHANGED not_servers
    /\ UNCHANGED << program, session, mutex, history >>

\* matrix: *expected_vector = new_vector, one element at a time
MatrixWrite(w) ==
    /\ program = "matrix"
    /\ worker[w].pc = "Write"
    /\ LET i == Len(worker[w].copy) + 1
       IN  /\ session' = [session EXCEPT ![i] = worker[w].fresh[i]]
           /\ IF i = MatrixWidth
              THEN /\ history' = Append(history, worker[w].fresh)
                   /\ worker' = [worker EXCEPT ![w].copy = <<>>,
                                               ![w].wrote = TRUE,
                                               ![w].pc = "Unlock"]
              ELSE /\ worker' = [worker EXCEPT
                                    ![w].copy = Append(worker[w].copy,
                                                       worker[w].fresh[i])]
                   /\ UNCHANGED history
    /\ UNCHANGED not_servers
    /\ UNCHANGED << program, mutex >>

\* matrix: get_challenge clones the vector, one element at a time
MatrixCopy(w) ==
    /\ program = "matrix"
    /\ worker[w].pc = "Copy"
    /\ LET i == Len(worker[w].copy) + 1
       IN  worker' = [worker EXCEPT
                         ![w].copy = Append(worker[w].copy, session[i]),
                         ![w].pc = IF i = MatrixWidth
                                   THEN "Unlock" ELSE "Copy"]
    /\ UNCHANGED not_servers
    /\ UNCHANGED << program, session, mutex, history >>

\* a handler that returns without dropping the guard
MatrixKeepsGuard(w) ==
    /\ program = "matrix"
    /\ worker[w].pc = "Unlock"
    /\ worker' = [worker EXCEPT ![w].pc = "Done"]
    /\ UNCHANGED not_servers
    /\ UNCHANGED << program, session, mutex, history >>

\* matrix: the guard is dropped
MatrixUnlock(w) ==
    /\ program = "matrix"
    /\ worker[w].pc = "Unlock"
    /\ mutex' = "free"
    /\ worker' = [worker EXCEPT ![w].pc = "Done"]
    /\ UNCHANGED not_servers
    /\ UNCHANGED << program, session, history >>

\* a valid-proof handler that returns an error unless it rotated the
\* challenge
HandlerResultErrOnMismatch(w) ==
    IF worker[w].pc # "Done" THEN "none"
    ELSE IF worker[w].wrote THEN "Ok" ELSE "Err"

\* what the handler closure of a worker returned: every branch of the
\* closures of both servers ends in Ok(())
HandlerResult(w) ==
    IF worker[w].pc # "Done" THEN "none" ELSE "Ok"

\* the request a worker handles, as far as its job tells
JobRequest(w) ==
    [client_id |-> "alice",
     proof |-> [enc |-> "proof", stmt |-> worker[w].job.ins],
     public_inputs |-> StringInputs(worker[w].job.ins)]

\* the response verify_handler builds once the valid-proof handler of the
\* worker has returned
WorkerResponse(w) ==
    ValidArm(JobRequest(w), worker[w].job.ins, valid_proof_handler,
             HandlerResult(w)).response

NextServers ==
    \/ \E w \in Workers : \E job \in FactJobs \cup MatrixJobs : Accept(w, job)
    \/ \E w \in Workers : FactValid(w)
    \/ \E w \in Workers : FactWrite(w)
    \/ \E w \in Workers : FactChallenge(w)
    \/ \E w \in Workers : LogOnly(w)
    \/ \E w \in Workers : MatrixValid(w)
    \/ \E w \in Workers : MatrixLock(w)
    \/ \E w \in Workers : MatrixCompare(w)
    \/ \E w \in Workers : MatrixWrite(w)
    \/ \E w \in Workers : MatrixCopy(w)
    \/ \E w \in Workers : MatrixUnlock(w)

(***************************************************************************)
(* The client: create_random_proof synthesizes the ZkCircuit, whose        *)
(* generator declares variables on a ZkCircuitContext; the context's log   *)
(* of public inputs becomes the public_inputs of the ProofRequest, which   *)
(* the server decodes.                                                     *)
(***************************************************************************)
FieldElements == 0..(Modulus - 1)

E_ASSIGNMENT == "AssignmentMissing"

\* what the value closures passed to the context return
InputThunks == { Ok(v) : v \in FieldElements } \cup { Err(E_ASSIGNMENT) }
WitnessThunks == { Ok(3), Ok(11), Err(E_ASSIGNMENT) }

ContextCall(op, f) == [op |-> op, f |-> f]
Allocated(kind, value) == [kind |-> kind, value |-> value]

\* Fr::from(u64)
FrFromU64(n) == n % Modulus

\* a generator that is none of the provided ones
CustomCircuit == [kind |-> "custom"]

\* AdderCircuit { x, y }
AdderValues == {0, 5, 12}
AdderCircuit(x, y) == [kind |-> "adder", x |-> x, y |-> y]

\* FactorizationCircuit { p1, p2, product }
FactorValues == {0} \cup Primes
ProductValues == {0} \cup Products
FactorizationCircuit(p1, p2, product) ==
    [kind |-> "factorization", p1 |-> p1, p2 |-> p2, product |-> product]

\* the Poseidon hashes hash_4 and hash_2, scaled down to the field
Hash4(v) == (1 + v[1] + 2 * v[2] + 3 * v[3] + 4 * v[4]) % Modulus
Hash2(a, b) == (1 + 3 * a + 5 * b) % Modulus

\* row.chunks(4), padded with zeros (the rows here have one chunk)
Chunk(row) ==
    [i \in 1..4 |-> IF i <= Len(row) THEN FrFromU64(row[i]) ELSE 0]

RECURSIVE HashRows(_, _)
HashRows(rows, matrix_hash) ==
    IF rows = <<>> THEN matrix_hash
    ELSE HashRows(Tail(rows), Hash2(matrix_hash, Hash4(Chunk(Head(rows)))))

RECURSIVE Dot(_, _)
Dot(row, vector) ==
    IF row = <<>> THEN 0
    ELSE Head(row) * Head(vector) + Dot(Tail(row), Tail(vector))

\* MatrixMultiplicationCircuit::new
MatrixMultiplicationCircuit(private_matrix, public_vector) ==
    [kind |-> "matrix",
     private_matrix |-> private_matrix,
     public_vector |-> public_vector,
     result |-> [i \in 1..Len(private_matrix) |->
                    Dot(private_matrix[i], public_vector)],
     matrix_hash |-> HashRows(private_matrix, 0)]

\* the matrices and vectors of the example: n rows of width m
MatrixEntries == {0, 1}
MatrixHeights == {1, 2}
Matrices ==
    UNION { [1..n -> [1..MatrixWidth -> MatrixEntries]] : n \in MatrixHeights }

Circuits ==
    { CustomCircuit }
    \cup { AdderCircuit(x, y) : x, y \in AdderValues }
    \cup { FactorizationCircuit(p1, p2, product) :
               p1, p2 \in FactorValues, product \in ProductValues }
    \cup { MatrixMultiplicationCircuit(a, v) :
               a \in Matrices, v \in ChallengeVectors }

\* the instance setup makes the keys from: all values zero, and for the
\* matrix the dimensions of the instance
ZeroInstance(c) ==
    CASE c.kind = "adder" -> AdderCircuit(0, 0)
      [] c.kind = "factorization" -> FactorizationCircuit(0, 0, 0)
      [] c.kind = "matrix" ->
             MatrixMultiplicationCircuit(
                 [i \in 1..Len(c.private_matrix) |->
                     [j \in 1..Len(c.private_matrix[1]) |-> 0]],
                 [j \in 1..Len(c.public_vector) |-> 0])
      [] OTHER -> c

\* the calls each provided generator makes on the context, in order
PublicInputsOf(values) ==
    [i \in 1..Len(values) |->
        ContextCall("new_public_input", Ok(FrFromU64(values[i])))]

WitnessesOf(values) ==
    [i \in 1..Len(values) |->
        ContextCall("new_witness", Ok(FrFromU64(values[i])))]

RECURSIVE Flatten(_)
Flatten(rows) ==
    IF rows = <<>> THEN <<>> ELSE Head(rows) \o Flatten(Tail(rows))

AdderGenerateConstraints(c) ==
    << ContextCall("new_public_input", Ok(c.x)),
       ContextCall("new_witness", Ok(c.y)),
       ContextCall("new_public_input", Ok((c.x + c.y) % Modulus)) >>

FactorizationGenerateConstraints(c) ==
    WitnessesOf(<< c.p1, c.p2 >>) \o PublicInputsOf(<< c.product >>)

\* a generator that allocates no witness for a zero entry of the matrix
MatrixSparseGenerateConstraints(c) ==
    << ContextCall("new_public_input", Ok(c.matrix_hash)) >>
    \o WitnessesOf(SelectSeq(Flatten(c.private_matrix), LAMBDA x : x # 0))
    \o PublicInputsOf(c.public_vector)
    \o PublicInputsOf(c.result)
    \o WitnessesOf([i \in 1..Len(c.private_matrix) |-> 0])

\* the hash, the entries row by row, the vector, the result, and one sum
\* per row
MatrixGenerateConstraints(c) ==
    << ContextCall("new_public_input", Ok(c.matrix_hash)) >>
    \o WitnessesOf(Flatten(c.private_matrix))
    \o PublicInputsOf(c.public_vector)
    \o PublicInputsOf(c.result)
    \o WitnessesOf([i \in 1..Len(c.private_matrix) |-> 0])

GeneratorCalls(c) ==
    CASE c.kind = "adder" -> AdderGenerateConstraints(c)
      [] c.kind = "factorization" -> FactorizationGenerateConstraints(c)
      [] c.kind = "matrix" -> MatrixGenerateConstraints(c)

\* whether the values of the instance satisfy the constraints the
\* generator enforces (the Poseidon gadget of the matrix circuit is taken
\* to agree with the hash of new)
Satisfied(c) ==
    CASE c.kind = "factorization" ->
             (FrFromU64(c.p1) * FrFromU64(c.p2)) % Modulus
                 = FrFromU64(c.product)
      [] OTHER -> TRUE

\* a context and the effect of a sequence of successful calls on it
EmptyContext == [public_inputs |-> <<>>, cs |-> <<>>]

RECURSIVE ContextAfter(_, _)
ContextAfter(ctx, cc) ==
    IF cc = <<>> THEN ctx
    ELSE LET c == Head(cc)
             next ==
                 IF c.op = "new_public_input"
                 THEN [public_inputs |-> Append(ctx.public_inputs, c.f.val),
                       cs |-> Append(ctx.cs, Allocated("input", c.f.val))]
                 ELSE [ctx EXCEPT
                          !.cs = Append(@, Allocated("witness", c.f.val))]
         IN  ContextAfter(next, Tail(cc))

InitClient ==
    /\ ctx_public_inputs = <<>>
    /\ cs = <<>>
    /\ calls = <<>>
    /\ client_pc = "Synthesizing"
    /\ shared_inputs = <<>>
    /\ sent = <<>>
    /\ proof_request = <<>>
    /\ circuit \in Circuits
    /\ decoded = Ok(<<>>)
    /\ files = <<>>
    /\ server_app = <<>>
    /\ client_app = <<>>
    /\ wire = <<>>
    /\ legacy = <<>>
    /\ valid_proof_handler = TRUE
    /\ invalid_proof_handler = TRUE
    /\ error_handler = TRUE
    /\ serving = TRUE
    /\ pc = "Idle"
    /\ payload = NoPayload
    /\ inputs = <<>>
    /\ verified = VOk(FALSE)
    /\ visited = <<>>
    /\ verifier_calls = <<>>
    /\ invoked = <<>>
    /\ response = NoResponse
    /\ program = "none"
    /\ session = <<>>
    /\ mutex = "free"
    /\ worker = <<>>
    /\ history = <<>>

\* ZkCircuitContext::new_public_input: the closure is evaluated, its value
\* pushed to the log and allocated as an instance variable
NewPublicInput(f) ==
    /\ client_pc = "Synthesizing"
    /\ circuit = CustomCircuit
    /\ Len(calls) < MaxCalls
    /\ calls' = Append(calls, ContextCall("new_public_input", f))
    /\ IF f.ok
       THEN /\ ctx_public_inputs' = Append(ctx_public_inputs, f.val)
            /\ cs' = Append(cs, Allocated("input", f.val))
       ELSE UNCHANGED << ctx_public_inputs, cs >>
    /\ UNCHANGED << client_pc, shared_inputs, sent, proof_request, decoded,
                    circuit >>
    /\ UNCHANGED not_client

\* a new_witness that also records its value
NewWitnessLogged(f) ==
    /\ client_pc = "Synthesizing"
    /\ circuit = CustomCircuit
    /\ Len(calls) < MaxCalls
    /\ calls' = Append(calls, ContextCall("new_witness", f))
    /\ IF f.ok
       THEN /\ ctx_public_inputs' = Append(ctx_public_inputs, f.val)
            /\ cs' = Append(cs, Allocated("witness", f.val))
       ELSE UNCHANGED << ctx_public_inputs, cs >>
    /\ UNCHANGED << client_pc, shared_inputs, sent, proof_request, decoded,
                    circuit >>
    /\ UNCHANGED not_client

\* ZkCircuitContext::new_witness: the closure goes to the constraint
\* system, which allocates a witness variable
NewWitness(f) ==
    /\ client_pc = "Synthesizing"
    /\ circuit = CustomCircuit
    /\ Len(calls) < MaxCalls
    /\ calls' = Append(calls, ContextCall("new_witness", f))
    /\ IF f.ok
       THEN cs' = Append(cs, Allocated("witness", f.val))
       ELSE UNCHANGED cs
    /\ UNCHANGED << ctx_public_inputs, client_pc, shared_inputs, sent,
                    proof_request, decoded, circuit >>
    /\ UNCHANGED not_client

\* the generator returns an error: no proof, no request
SynthesisFails ==
    /\ client_pc = "Synthesizing"
    /\ circuit = CustomCircuit
    /\ client_pc' = "Failed"
    /\ UNCHANGED << ctx_public_inputs, cs, calls, shared_inputs, sent,
                    proof_request, decoded, circuit >>
    /\ UNCHANGED not_client

\* the generator returns Ok: the log is stored for the client and the
\* proof is made
Synthesized ==
    /\ client_pc = "Synthesizing"
    /\ circuit = CustomCircuit
    /\ shared_inputs' = ctx_public_inputs
    /\ client_pc' = "Proved"
    /\ UNCHANGED << ctx_public_inputs, cs, calls, sent, proof_request,
                    decoded, circuit >>
    /\ UNCHANGED not_client

\* ZkCircuit::generate_constraints on one of the provided generators: it
\* makes its calls on a new context and returns Ok, and the log is stored
ProvidedGenerator ==
    /\ client_pc = "Synthesizing"
    /\ circuit # CustomCircuit
    /\ LET cc == GeneratorCalls(circuit)
           ctx == ContextAfter(EmptyContext, cc)
       IN  /\ calls' = cc
           /\ ctx_public_inputs' = ctx.public_inputs
           /\ cs' = ctx.cs
           /\ shared_inputs' = ctx.public_inputs
    /\ client_pc' = "Proved"
    /\ UNCHANGED << sent, proof_request, decoded, circuit >>
    /\ UNCHANGED not_client

\* the statement of a proof made from values that do not satisfy the
\* constraints: no verifier input fits it
NoStatement == << Modulus >>

\* the proof of create_random_proof, serialized and base64-encoded
EncodedProof(statement) == [enc |-> "proof", stmt |-> statement]

\* a request that also carries the values of the witness variables
ProofRequestWithWitnesses(proof, public_inputs) ==
    [proof |-> proof,
     public_inputs |->
         public_inputs \o
         LET ws == SelectSeq(cs, LAMBDA a : a.kind = "witness")
         IN  [i \in 1..Len(ws) |-> FieldToString(ws[i].value)]]

\* the ProofRequest literal of generate_proof_request
BuildProofRequest(proof, public_inputs) ==
    [proof |-> proof, public_inputs |-> public_inputs]

\* create_random_proof on values that do not satisfy the constraints,
\* built with debug assertions: the prover's assertion fails
ProverAsserts ==
    /\ client_pc = "Proved"
    /\ ~Satisfied(circuit)
    /\ client_pc' = "Failed"
    /\ UNCHANGED << ctx_public_inputs, cs, calls, shared_inputs, sent,
                    proof_request, decoded, circuit >>
    /\ UNCHANGED not_client

\* generate_proof_request: the stored inputs are written as strings and
\* put into the request with the proof; the request is delivered as built
BuildRequest ==
    /\ client_pc = "Proved"
    /\ proof_request' =
           BuildProofRequest(
               EncodedProof(IF Satisfied(circuit)
                            THEN shared_inputs ELSE NoStatement),
               [i \in 1..Len(shared_inputs) |->
                   FieldToString(shared_inputs[i])])
    /\ sent' = proof_request'.public_inputs
    /\ client_pc' = "Sent"
    /\ UNCHANGED << ctx_public_inputs, cs, calls, shared_inputs, decoded,
                    circuit >>
    /\ UNCHANGED not_client

\* the server decodes the inputs of the request as delivered
ServerDecode ==
    /\ client_pc = "Sent"
    /\ decoded' = CollectInputs(sent)
    /\ client_pc' = "Decoded"
    /\ UNCHANGED << ctx_public_inputs, cs, calls, shared_inputs, sent,
                    proof_request, circuit >>
    /\ UNCHANGED not_client

\* the Json extractor of verify_handler: the body must have every field
\* of ProofRequest
Deserializes(body) ==
    {"client_id", "proof", "public_inputs"} \subseteq DOMAIN body

\* the verifying key of the server, set up for the shape of the circuit
KeyForShape(c) ==
    [num_inputs |->
        IF c = CustomCircuit THEN Len(shared_inputs)
        ELSE Len(ContextAfter(EmptyContext,
                              GeneratorCalls(ZeroInstance(c))).public_inputs)]

\* POST /verify with the request as built, to a server that holds the key
\* for the shape and whose handlers return Ok, as those of the examples do
PostVerify ==
    /\ client_pc = "Decoded"
    /\ IF ~Deserializes(proof_request)
       THEN /\ \E s \in JsonRejectStatuses("no_client_id") :
                   response' = Response(s, "Rejected", <<>>, E_JSON)
            /\ invoked' = <<>>
       ELSE LET arm ==
                    IF ~decoded.ok
                    THEN DecodeErrorArm(proof_request, decoded.err,
                                        error_handler, "Ok")
                    ELSE LET v == Groth16Verify(KeyForShape(circuit),
                                                decoded.val,
                                                proof_request.proof)
                         IN  CASE MatchVerify(v) = "Valid" ->
                                      ValidArm(proof_request, decoded.val,
                                               valid_proof_handler, "Ok")
                               [] MatchVerify(v) = "Invalid" ->
                                      InvalidArm(proof_request,
                                                 invalid_proof_handler, "Ok")
                               [] OTHER ->
                                      VerifyErrorArm(proof_request, v.err,
                                                     error_handler, "Ok")
            IN  /\ invoked' = arm.invoked
                /\ response' = arm.response
    /\ client_pc' = "Answered"
    /\ UNCHANGED << ctx_public_inputs, cs, calls, shared_inputs, sent,
                    proof_request, decoded, circuit >>
    /\ UNCHANGED << handlers, serving, pc, payload, inputs, verified,
                    visited, verifier_calls >>
    /\ UNCHANGED << svars, avars, lvars >>

NextClient ==
    \/ \E f \in InputThunks : NewPublicInput(f)
    \/ \E f \in WitnessThunks : NewWitness(f)
    \/ SynthesisFails
    \/ Synthesized
    \/ ProvidedGenerator
    \/ ProverAsserts
    \/ BuildRequest
    \/ ServerDecode
    \/ PostVerify

(***************************************************************************)
(* Keys and start-up: generate_keys_to_files writes the key pair, the      *)
(* server reads the verifying key in ServerApp::new, the client reads the  *)
(* proving key in load_proving_key.                                        *)
(***************************************************************************)
\* the key pairs a setup may produce (it draws randomness)
KeyIds == {"k1", "k2"}

ProvingKey(k) == [kind |-> "pk", id |-> k, sound |-> TRUE]
VerifyingKeyOf(k) == [kind |-> "vk", id |-> k, sound |-> TRUE]

\* a value of the right layout whose group elements are not valid
UnsoundKey(kind) == [kind |-> kind, id |-> "none", sound |-> FALSE]
NoKey == [kind |-> "none", id |-> "none", sound |-> FALSE]

\* contents of a file
Bytes(layout, key) == [layout |-> layout, key |-> key]
NoFile == Bytes("missing", NoKey)
Garbage == Bytes("garbage", NoKey)

\* CanonicalSerialize: the compressed and the uncompressed layout; the
\* unchecked variant is the uncompressed one
SerializeCompressed(key) == Bytes("compressed", key)
SerializeUncompressed(key) == Bytes("uncompressed", key)
SerializeUnchecked(key) == SerializeUncompressed(key)

\* CanonicalDeserialize: the unchecked variant reads the uncompressed
\* layout and skips the validity checks of the group elements
DeserializeUnchecked(bytes, kind) ==
    IF bytes.layout = "uncompressed" /\ bytes.key.kind = kind
    THEN Ok(bytes.key) ELSE [ok |-> FALSE, val |-> NoKey, err |-> E_PROOF]

DeserializeUncompressed(bytes, kind) ==
    LET r == DeserializeUnchecked(bytes, kind)
    IN  IF r.ok /\ ~r.val.sound
        THEN [ok |-> FALSE, val |-> NoKey, err |-> E_PROOF]
        ELSE r

E_IO == "No such file or directory"

\* std::fs::read
FsRead(file) ==
    IF file = NoFile THEN [ok |-> FALSE, val |-> NoFile, err |-> E_IO]
    ELSE Ok(file)

\* a loader that takes whatever is at the path for a key
LoadAnything(file) ==
    IF file.key.kind = "vk" THEN Ok(file.key) ELSE Ok(UnsoundKey("vk"))

\* ServerApp::new, up to the key: read the file, deserialize_unchecked
LoadVerifyingKey(file) ==
    LET vk_bytes == FsRead(file)
    IN  IF ~vk_bytes.ok THEN [ok |-> FALSE, val |-> NoKey, err |-> E_IO]
        ELSE DeserializeUnchecked(vk_bytes.val, "vk")

\* load_proving_key: read the file, deserialize_uncompressed
LoadProvingKey(file) ==
    LET pk_bytes == FsRead(file)
    IN  IF ~pk_bytes.ok THEN [ok |-> FALSE, val |-> NoKey, err |-> E_IO]
        ELSE DeserializeUncompressed(pk_bytes.val, "pk")

E_KEY_NOT_LOADED == "Proving key not loaded. Call load_proving_key first."
E_PROVER == "an assignment for a variable could not be computed"
E_TRANSPORT == "error sending request"

\* what may lie at a key path besides the keys setup wrote
OtherFiles(kind) == { NoFile, Garbage, SerializeUnchecked(UnsoundKey(kind)) }

\* bodies of answers to a POST /verify: the three tagged outcomes, and the
\* plain text the framework sends for a body it rejects
TaggedBodies == {"Valid", "Invalid", "Error"}
ResponseBodies == TaggedBodies \cup {"Json deserialize error"}

NoServer == [state |-> "None", verification_key |-> NoKey, accepted |-> 0]
NoClient ==
    [state |-> "None", proving_key |-> NoKey, pc |-> "Idle",
     result |-> Ok(""), request |-> "none"]

\* the proof requests generate_proof may return (the prover draws
\* randomness), and their JSON text
RequestIds == {"r1", "r2"}
ToJson(r) == << "json", r >>

\* what is at the proof path: nothing, or text that is no whole request
NoProofFile == << "missing" >>
PartialFile == << "partial" >>

InitApps ==
    /\ files = [pk |-> NoFile, vk |-> NoFile, generated |-> "none",
                proof |-> NoProofFile]
    /\ server_app = NoServer
    /\ client_app = NoClient
    /\ wire = [transmitted |-> 0, answer |-> "none", request |-> "none"]
    /\ legacy = <<>>
    /\ valid_proof_handler = FALSE
    /\ invalid_proof_handler = FALSE
    /\ error_handler = FALSE
    /\ serving = FALSE
    /\ pc = "Idle"
    /\ payload = NoPayload
    /\ inputs = <<>>
    /\ verified = VOk(FALSE)
    /\ visited = <<>>
    /\ verifier_calls = <<>>
    /\ invoked = <<>>
    /\ response = NoResponse
    /\ program = "none"
    /\ session = <<>>
    /\ mutex = "free"
    /\ worker = <<>>
    /\ history = <<>>
    /\ ctx_public_inputs = <<>>
    /\ cs = <<>>
    /\ calls = <<>>
    /\ client_pc = "Off"
    /\ shared_inputs = <<>>
    /\ sent = <<>>
    /\ proof_request = <<>>
    /\ circuit = <<>>
    /\ decoded = Ok(<<>>)

\* setup::generate_keys_to_files: a key pair is generated and both keys
\* are written with serialize_unchecked
GenerateKeysToFiles(k) ==
    /\ files.generated = "none"
    /\ files' = [files EXCEPT !.pk = SerializeUnchecked(ProvingKey(k)),
                              !.vk = SerializeUnchecked(VerifyingKeyOf(k)),
                              !.generated = k]
    /\ UNCHANGED << server_app, client_app, wire >>
    /\ UNCHANGED not_apps

\* the files are not the ones setup wrote: removed, overwritten, truncated
OtherKeyFiles(pk_file, vk_file) ==
    /\ files.generated # "other"
    /\ << pk_file, vk_file >> # << files.pk, files.vk >>
    /\ files' = [files EXCEPT !.pk = pk_file, !.vk = vk_file,
                              !.generated = "other"]
    /\ UNCHANGED << server_app, client_app, wire >>
    /\ UNCHANGED not_apps

\* ServerApp::new
ServerNew ==
    /\ server_app.state = "None"
    /\ LET vk == LoadVerifyingKey(files.vk)
       IN  server_app' =
               IF vk.ok
               THEN [server_app EXCEPT !.state = "Built",
                                       !.verification_key = vk.val]
               ELSE [server_app EXCEPT !.state = "Failed"]
    /\ UNCHANGED << files, client_app, wire >>
    /\ UNCHANGED not_apps

\* ServerApp::run: bind, then serve
ServerRun(bound) ==
    /\ server_app.state = "Built"
    /\ server_app' = [server_app EXCEPT
                         !.state = IF bound THEN "Listening" ELSE "Stopped"]
    /\ UNCHANGED << files, client_app, wire >>
    /\ UNCHANGED not_apps

\* ClientApp::new
ClientNew ==
    /\ client_app.state = "None"
    /\ client_app' = [client_app EXCEPT !.state = "Built"]
    /\ UNCHANGED << files, server_app, wire >>
    /\ UNCHANGED not_apps

\* ClientApp::load_proving_key: the key is stored only when it was read
ClientLoadProvingKey ==
    /\ client_app.state = "Built"
    /\ client_app.pc = "Idle"
    /\ client_app.proving_key = NoKey
    /\ LET pk == LoadProvingKey(files.pk)
       IN  client_app' =
               IF pk.ok
               THEN [client_app EXCEPT !.proving_key = pk.val]
               ELSE [client_app EXCEPT !.state = "KeyFailed",
                                       !.result = Err(pk.err)]
    /\ UNCHANGED << files, server_app, wire >>
    /\ UNCHANGED not_apps

\* the caller goes on with the ClientApp after a failed load
ClientKeepsApp ==
    /\ client_app.state = "KeyFailed"
    /\ client_app' = [client_app EXCEPT !.state = "Built",
                                        !.result = Ok("")]
    /\ UNCHANGED << files, server_app, wire >>
    /\ UNCHANGED not_apps

\* a generate_proof that goes to the prover without looking at the key
GenerateProofUnguarded(proved) ==
    /\ client_app.state = "Built"
    /\ client_app.pc = "Idle"
    /\ \E r \in RequestIds : client_app' =
           IF ~proved
           THEN [client_app EXCEPT !.pc = "Returned",
                                   !.result = Err(E_PROVER)]
           ELSE [client_app EXCEPT !.pc = "Generated", !.request = r]
    /\ UNCHANGED << files, server_app, wire >>
    /\ UNCHANGED not_apps

\* generate_and_send_proof, first step: generate_proof, which needs the
\* key and may fail in the prover
GenerateProof(proved) ==
    /\ client_app.state = "Built"
    /\ client_app.pc = "Idle"
    /\ \E r \in RequestIds : client_app' =
           IF client_app.proving_key = NoKey
           THEN [client_app EXCEPT !.pc = "Returned",
                                   !.result = Err(E_KEY_NOT_LOADED)]
           ELSE IF ~proved
           THEN [client_app EXCEPT !.pc = "Returned",
                                   !.result = Err(E_PROVER)]
           ELSE [client_app EXCEPT !.pc = "Generated", !.request = r]
    /\ UNCHANGED << files, server_app, wire >>
    /\ UNCHANGED not_apps

\* generate_and_send_proof, second step: save_proof; std::fs::write
\* either writes the whole JSON text, or fails and leaves the path as it
\* was or with text that is no whole request
SaveProof(written) ==
    /\ client_app.pc = "Generated"
    /\ client_app' =
           IF written
           THEN [client_app EXCEPT !.pc = "Saved"]
           ELSE [client_app EXCEPT !.pc = "Returned", !.result = Err(E_IO)]
    /\ \E left \in {files.proof, PartialFile} :
           files' = [files EXCEPT !.proof = IF written
                                            THEN ToJson(client_app.request)
                                            ELSE left]
    /\ UNCHANGED << server_app, wire >>
    /\ UNCHANGED not_apps

\* a generate_and_send_proof that posts the request before saving it
TransmitBeforeSave ==
    /\ client_app.pc = "Generated"
    /\ client_app' = [client_app EXCEPT !.pc = "Sent"]
    /\ wire' = [wire EXCEPT !.transmitted = wire.transmitted + 1,
                            !.request = ToJson(client_app.request)]
    /\ UNCHANGED << files, server_app >>
    /\ UNCHANGED not_apps

\* send_proof_to_server: the request is posted as JSON
Transmit ==
    /\ client_app.pc = "Saved"
    /\ client_app' = [client_app EXCEPT !.pc = "Sent"]
    /\ wire' = [wire EXCEPT !.transmitted = wire.transmitted + 1,
                            !.request = ToJson(client_app.request)]
    /\ UNCHANGED << files, server_app >>
    /\ UNCHANGED not_apps

\* a listening server accepts the request and answers
ServerAnswers(body) ==
    /\ client_app.pc = "Sent"
    /\ wire.answer = "none"
    /\ server_app.state = "Listening"
    /\ server_app' = [server_app EXCEPT !.accepted = server_app.accepted + 1]
    /\ wire' = [wire EXCEPT !.answer = body]
    /\ UNCHANGED << files, client_app >>
    /\ UNCHANGED not_apps

\* send_proof_to_server: resp.text() is returned as it is
ReturnText ==
    /\ client_app.pc = "Sent"
    /\ wire.answer # "none"
    /\ client_app' = [client_app EXCEPT !.pc = "Returned",
                                        !.result = Ok(wire.answer)]
    /\ UNCHANGED << files, server_app, wire >>
    /\ UNCHANGED not_apps

\* send_proof_to_server: no connection, or it breaks
TransportFails ==
    /\ client_app.pc = "Sent"
    /\ wire.answer = "none"
    /\ client_app' = [client_app EXCEPT !.pc = "Returned",
                                        !.result = Err(E_TRANSPORT)]
    /\ UNCHANGED << files, server_app, wire >>
    /\ UNCHANGED not_apps

NextApps ==
    \/ \E k \in KeyIds : GenerateKeysToFiles(k)
    \/ \E pk_file \in OtherFiles("pk") \cup {files.pk} :
           \E vk_file \in OtherFiles("vk") \cup {files.vk} :
               OtherKeyFiles(pk_file, vk_file)
    \/ ServerNew
    \/ \E bound \in BOOLEAN : ServerRun(bound)
    \/ ClientNew
    \/ ClientLoadProvingKey
    \/ ClientKeepsApp
    \/ \E proved \in BOOLEAN : GenerateProof(proved)
    \/ \E written \in BOOLEAN : SaveProof(written)
    \/ Transmit
    \/ \E body \in ResponseBodies : ServerAnswers(body)
    \/ ReturnText
    \/ TransportFails

allvars == << vars, svars, cvars, avars, lvars >>

\* the pipeline of one ServerApp
Spec == Init /\ [][Next]_allvars

\* an example server and its workers
SpecServers == InitServers /\ [][NextServers]_allvars

\* a client proving one circuit and the server decoding its request
SpecClient == InitClient /\ [][NextClient]_allvars

\* key files, a server and a client started from them, one proof sent
SpecApps == InitApps /\ [][NextApps]_allvars

\* a running server seen either as the pipeline of one request after the
\* other, or as the workers of an example server with a request each; the
\* runtime runs every task that can take a step, and the verifier and the
\* handlers return
OffWorker == [IdleWorker EXCEPT !.pc = "Off"]

\* the requests that arrive: one client, every kind of proof, and inputs
\* that take each arm of verify_handler; and the bodies that are rejected
LivePayloads ==
    { p \in Payloads :
          \/ p.kind # "json"
          \/ /\ p.request.client_id = "alice"
             /\ p.request.public_inputs \in
                    { <<>>, << <<"5">>, <<"7">> >>, << <<"7">>, <<"5">> >>,
                      << <<"x">> >>, << <<"1", "4">> >> } }

InitLive ==
    /\ program \in {"none", "factorization", "matrix"}
    /\ session = CASE program = "factorization" -> AsValue(2 * 3)
                   [] program = "matrix" -> << 0, 1 >>
                   [] OTHER -> <<>>
    /\ mutex = "free"
    /\ worker = [w \in Workers |->
                    IF program = "none" THEN OffWorker ELSE IdleWorker]
    /\ history = IF program = "none" THEN <<>> ELSE << session >>
    /\ valid_proof_handler = (program # "none")
    /\ invalid_proof_handler = (program # "none")
    /\ error_handler = (program # "none")
    /\ serving = (program # "none")
    /\ pc = IF program = "none" THEN "Idle" ELSE "Off"
    /\ payload = NoPayload
    /\ inputs = <<>>
    /\ verified = VOk(FALSE)
    /\ visited = <<>>
    /\ verifier_calls = <<>>
    /\ invoked = <<>>
    /\ response = NoResponse
    /\ ctx_public_inputs = <<>>
    /\ cs = <<>>
    /\ calls = <<>>
    /\ client_pc = "Off"
    /\ shared_inputs = <<>>
    /\ sent = <<>>
    /\ proof_request = <<>>
    /\ circuit = <<>>
    /\ decoded = Ok(<<>>)
    /\ files = <<>>
    /\ server_app = <<>>
    /\ client_app = <<>>
    /\ wire = <<>>
    /\ legacy = <<>>

NextLive ==
    \/ WithValidProofHandler
    \/ WithInvalidProofHandler
    \/ WithErrorHandler
    \/ Run
    \/ \E p \in LivePayloads : Receive(p)
    \/ Decode
    \/ Verify
    \/ Valid
    \/ Invalid
    \/ Error
    \/ Finish
    \/ \E w \in Workers : \E job \in FactJobs \cup MatrixJobs : Accept(w, job)
    \/ \E w \in Workers : FactValid(w)
    \/ \E w \in Workers : FactWrite(w)
    \/ \E w \in Workers : FactChallenge(w)
    \/ \E w \in Workers : LogOnly(w)
    \/ \E w \in Workers : MatrixValid(w)
    \/ \E w \in Workers : MatrixLock(w)
    \/ \E w \in Workers : MatrixCompare(w)
    \/ \E w \in Workers : MatrixWrite(w)
    \/ \E w \in Workers : MatrixCopy(w)
    \/ \E w \in Workers : MatrixUnlock(w)

\* the steps of the request in flight, and the steps of a worker; at most
\* one of either can be taken at a time
PipelineStep == Decode \/ Verify \/ Valid \/ Invalid \/ Error \/ Finish

WorkerStep(w) ==
    \/ FactValid(w) \/ FactWrite(w) \/ FactChallenge(w) \/ LogOnly(w)
    \/ MatrixValid(w) \/ MatrixLock(w) \/ MatrixCompare(w)
    \/ MatrixWrite(w) \/ MatrixCopy(w) \/ MatrixUnlock(w)

FairLive ==
    /\ WF_allvars(PipelineStep)
    /\ \A w \in Workers : WF_allvars(WorkerStep(w))

SpecLive == InitLive /\ [][NextLive]_allvars /\ FairLive

(***************************************************************************)
(* The first revision of the library (src/src): its codec writes a field   *)
(* element with into_repr().to_string() and reads it with F::from_str.     *)
(***************************************************************************)
HexChar(d) ==
    CASE d < 10 -> DigitChar(d)
      [] d = 10 -> "A" [] d = 11 -> "B" [] d = 12 -> "C"
      [] d = 13 -> "D" [] d = 14 -> "E" [] d = 15 -> "F"

\* BigInteger's Display: every limb, most significant first, written with
\* {:016X}: upper-case hexadecimal, zero-padded to the width of the limbs
RECURSIVE ReprToString(_, _)
ReprToString(n, width) ==
    IF width = 0 THEN <<>>
    ELSE Append(ReprToString(n \div 16, width - 1), HexChar(n % 16))

\* str::trim_start_matches('0')
RECURSIVE TrimStartZeros(_)
TrimStartZeros(s) ==
    IF s # <<>> /\ Head(s) = "0" THEN TrimStartZeros(Tail(s)) ELSE s

\* F::from_str: decimal digits only, no blank string, no leading zero
\* but in "0"; the digits are accumulated in the field. -1 stands for Err.
FromStr(s) ==
    IF s = <<>> THEN -1
    ELSE IF s = <<"0">> THEN 0
    ELSE IF \E i \in 1..Len(s) : s[i] \notin DigitChars THEN -1
    ELSE IF Head(s) = "0" THEN -1
    ELSE DigitsValue(s, 0) % Modulus

LegacyFieldToString(f) ==
    LET s == ReprToString(f, ModulusBits)
        trimmed == TrimStartZeros(s)
    IN  IF trimmed = <<>> THEN <<"0">> ELSE trimmed

LegacyFieldFromString(s) ==
    LET trimmed == TrimStartZeros(s)
    IN  IF trimmed = <<>> THEN Ok(0)
        ELSE LET f == FromStr(trimmed)
             IN  IF f = -1 THEN Err(E_FIELD) ELSE Ok(f)

\* verify: .map(field_from_string).collect::<Result<Vec<_>, _>>()
RECURSIVE LegacyCollect(_)
LegacyCollect(strs) ==
    IF strs = <<>> THEN Ok(<<>>)
    ELSE LET f == LegacyFieldFromString(Head(strs))
         IN  IF ~f.ok THEN [ok |-> FALSE, val |-> <<>>, err |-> f.err]
             ELSE LET rest == LegacyCollect(Tail(strs))
                  IN  IF ~rest.ok THEN rest
                      ELSE [rest EXCEPT !.val = <<f.val>> \o rest.val]

\* generate_proof_request has run the prover: the circuit's public inputs
\* are stored
InitLegacy ==
    /\ legacy \in [pc : {"Proved"},
                   public_inputs : SeqsUpTo(FieldElements, MaxInputs),
                   strings : {<<>>},
                   inputs : {Ok(<<>>)}]
    /\ files = <<>>
    /\ server_app = <<>>
    /\ client_app = <<>>
    /\ wire = <<>>
    /\ valid_proof_handler = FALSE
    /\ invalid_proof_handler = FALSE
    /\ error_handler = FALSE
    /\ serving = FALSE
    /\ pc = "Idle"
    /\ payload = NoPayload
    /\ inputs = <<>>
    /\ verified = VOk(FALSE)
    /\ visited = <<>>
    /\ verifier_calls = <<>>
    /\ invoked = <<>>
    /\ response = NoResponse
    /\ program = "none"
    /\ session = <<>>
    /\ mutex = "free"
    /\ worker = <<>>
    /\ history = <<>>
    /\ ctx_public_inputs = <<>>
    /\ cs = <<>>
    /\ calls = <<>>
    /\ client_pc = "Off"
    /\ shared_inputs = <<>>
    /\ sent = <<>>
    /\ proof_request = <<>>
    /\ circuit = <<>>
    /\ decoded = Ok(<<>>)

\* generate_proof_request: the stored inputs are written as strings
LegacyBuildRequest ==
    /\ legacy.pc = "Proved"
    /\ legacy' = [legacy EXCEPT
                     !.pc = "Sent",
                     !.strings = [i \in 1..Len(legacy.public_inputs) |->
                                     LegacyFieldToString(legacy.public_inputs[i])]]
    /\ UNCHANGED not_legacy

\* verify: the strings of the request are read back, before the verifier
LegacyVerifyDecode ==
    /\ legacy.pc = "Sent"
    /\ legacy' = [legacy EXCEPT !.pc = "Decoded",
                                !.inputs = LegacyCollect(legacy.strings)]
    /\ UNCHANGED not_legacy

NextLegacy ==
    \/ LegacyBuildRequest
    \/ LegacyVerifyDecode

\* one proof request of the first revision
SpecLegacy == InitLegacy /\ [][NextLegacy]_allvars

(***************************************************************************)
(* Properties of the dispatch pipeline.                                    *)
(***************************************************************************)
\* the request in flight was given to verify_handler
Handled == payload.kind = "json"

\* verify_handler has returned its response
Answered == Handled /\ pc = "Responded"

AllRegistered ==
    valid_proof_handler /\ invalid_proof_handler /\ error_handler

CallsOf(h) == { i \in 1..Len(invoked) : invoked[i].handler = h }

\* some string of the request's public_inputs does not decode
SomeInputUndecodable ==
    \E i \in 1..Len(request.public_inputs) :
        ~FieldFromString(request.public_inputs[i]).ok

\* the request's public_inputs, each decoded by itself
DecodedInputs ==
    [i \in 1..Len(request.public_inputs) |->
        FieldFromString(request.public_inputs[i]).val]

\* C1: with all three handlers registered, a request handled by
\* verify_handler has invoked no handler before it is answered and exactly
\* one handler, exactly once, when it is answered, on every path.
C1_ExactlyOneHandler ==
    (Handled /\ AllRegistered) =>
        IF pc = "Responded"
        THEN /\ Len(invoked) = 1
             /\ invoked[1].handler \in {"valid", "invalid", "error"}
             /\ invoked[1].handler =
                    (IF "Valid" \in {visited[i] : i \in 1..Len(visited)}
                     THEN "valid"
                     ELSE IF "Invalid" \in
                                 {visited[i] : i \in 1..Len(visited)}
                     THEN "invalid" ELSE "error")
        ELSE invoked = <<>>

\* C1 witness: the valid-proof handler was invoked, failed, and is the only
\* handler invoked.
C1_Witness ==
    /\ Answered /\ AllRegistered
    /\ Len(invoked) = 1
    /\ invoked[1].handler = "valid"
    /\ invoked[1].returned = "Err"

\* C2: a Valid answer was preceded by one verifier call, made with the
\* loaded key, the request's proof and its decoded public inputs, that
\* returned true; an Invalid answer by one that returned false.
C2_AnswerFollowsVerifier ==
    (response.type \in {"Valid", "Invalid"}) =>
        /\ Len(verifier_calls) = 1
        /\ verifier_calls[1].vk = VerifyingKey
        /\ verifier_calls[1].proof = request.proof
        /\ verifier_calls[1].inputs = DecodedInputs
        /\ verifier_calls[1].inputs = inputs
        /\ verifier_calls[1].result.ok
        /\ verifier_calls[1].result.val = (response.type = "Valid")

\* C2 witness: an Invalid answer after the verifier returned false.
C2_Witness ==
    /\ Answered
    /\ response.type = "Invalid"
    /\ Len(verifier_calls) = 1
    /\ verifier_calls[1].result = VOk(FALSE)

\* C3: when a string of public_inputs does not decode, the verifier is
\* never invoked, Verifying, Valid and Invalid are never entered, neither
\* the valid-proof nor the invalid-proof handler is invoked, and the answer
\* is Error with status 500 after the error handler (when one is
\* registered) was invoked.
C3_UndecodableInputIsError ==
    (Handled /\ SomeInputUndecodable) =>
        /\ verifier_calls = <<>>
        /\ pc \notin {"Verifying", "Valid", "Invalid", "Error"}
        /\ \A i \in 1..Len(visited) :
               visited[i] \notin {"Verifying", "Valid", "Invalid"}
        /\ CallsOf("valid") = {} /\ CallsOf("invalid") = {}
        /\ pc = "Responded" =>
               /\ response.status = 500
               /\ response.type = "Error"
               /\ response.text \in {E_DECIMAL, E_FIELD}
               /\ error_handler => Len(invoked) = 1
                                   /\ invoked[1].handler = "error"
                                   /\ invoked[1].text = response.text

\* C3 witness: a request with the non-numeric input "x" was answered and
\* the error handler fired.
C3_Witness ==
    /\ Answered
    /\ \E i \in 1..Len(request.public_inputs) :
           request.public_inputs[i] = <<"x">>
    /\ error_handler
    /\ Len(invoked) = 1

\* C4: a request whose body does not deserialize into a ProofRequest is
\* answered with an Error payload under status 500, after the error
\* handler (when one is registered) was invoked.
C4_MalformedBodyIsError ==
    (pc = "Responded" /\ payload.kind \in MalformedBodies) =>
        /\ response.status = 500
        /\ response.type = "Error"
        /\ error_handler => CallsOf("error") # {}

\* the error app.verify reports for a request whose inputs decode
VerifyFailure ==
    IF request.proof.enc = "not_base64" THEN E_BASE64
    ELSE IF request.proof.enc = "not_a_proof" THEN E_PROOF
    ELSE E_VERIFIER

\* C5: when all public inputs decode and the base64 decoding of the proof,
\* the deserialization of its bytes or the verifier call fails, the answer
\* is Error with status 500 carrying that error, the error handler (when
\* registered) was invoked once with the request's client_id and that
\* error, and no other handler was invoked.
C5_VerifyFailureIsError ==
    ( /\ Answered
      /\ ~SomeInputUndecodable
      /\ \/ request.proof.enc \in {"not_base64", "not_a_proof"}
         \/ \E i \in 1..Len(verifier_calls) : ~verifier_calls[i].result.ok )
    =>
        /\ response = Response(500, "Error", <<>>, VerifyFailure)
        /\ CallsOf("valid") = {} /\ CallsOf("invalid") = {}
        /\ IF error_handler
           THEN /\ Len(invoked) = 1
                /\ invoked[1].handler = "error"
                /\ invoked[1].client_id = request.client_id
                /\ invoked[1].text = VerifyFailure
           ELSE invoked = <<>>

\* C5 witness: proof bytes that are no proof, with inputs that decode, were
\* answered and the error handler fired.
C5_Witness ==
    /\ Answered
    /\ request.proof.enc = "not_a_proof"
    /\ Len(request.public_inputs) = 2
    /\ ~SomeInputUndecodable
    /\ CallsOf("error") # {}

\* C6: when the verifier returned true and the valid-proof handler
\* returned an error, the answer is Error with status 500 carrying the
\* handler's error.
C6_ValidHandlerFailureIsError ==
    ( /\ Answered
      /\ \E i \in 1..Len(verifier_calls) :
             verifier_calls[i].result = VOk(TRUE)
      /\ \E j \in CallsOf("valid") : invoked[j].returned = "Err" )
    => response = Response(500, "Error", <<>>, E_VALID_HANDLER)

\* C6 witness: the verifier returned true, the valid-proof handler failed
\* and the request was answered with an Error.
C6_Witness ==
    /\ Answered
    /\ Len(verifier_calls) = 1 /\ verifier_calls[1].result = VOk(TRUE)
    /\ \E i \in CallsOf("valid") : invoked[i].returned = "Err"
    /\ response.type = "Error"

\* a valid-proof or invalid-proof handler returned an error
OutcomeHandlerFailed ==
    \E i \in CallsOf("valid") \cup CallsOf("invalid") :
        invoked[i].returned = "Err"

\* C7 as claimed: whenever the answer is Error, the registered error
\* handler was invoked with the request's client_id and the error reported.
C7_ErrorHandlerOnEveryError ==
    (Answered /\ response.type = "Error" /\ error_handler) =>
        \E i \in CallsOf("error") :
            /\ invoked[i].client_id = request.client_id
            /\ invoked[i].text = response.text

\* C7 amended: when the answer is Error because the input decoding or
\* app.verify failed, the registered error handler was invoked once with
\* the request's client_id and the error reported; when it is Error because
\* the valid-proof or invalid-proof handler failed, the error handler was
\* not invoked.
C7_ErrorHandlerOnPipelineError ==
    (Answered /\ response.type = "Error") =>
        IF OutcomeHandlerFailed
        THEN CallsOf("error") = {}
        ELSE error_handler =>
                 /\ Len(invoked) = 1
                 /\ invoked[1].handler = "error"
                 /\ invoked[1].client_id = request.client_id
                 /\ invoked[1].text = response.text

\* C7 witness: app.verify failed in the verifier call and the error handler
\* received that error.
C7_Witness ==
    /\ Answered
    /\ Len(verifier_calls) = 1 /\ ~verifier_calls[1].result.ok
    /\ response.type = "Error"
    /\ Len(invoked) = 1
    /\ invoked[1].handler = "error"
    /\ invoked[1].text = E_VERIFIER

\* C8: every response of the endpoint has status 200 with a Valid payload,
\* 400 with an Invalid payload or 500 with an Error payload.
C8_StatusMatchesPayload ==
    (pc = "Responded") =>
        \/ response.status = 200 /\ response.type = "Valid"
        \/ response.status = 400 /\ response.type = "Invalid"
        \/ response.status = 500 /\ response.type = "Error"

\* C9: on the Valid outcome the valid-proof handler (when registered) was
\* invoked with the request's client_id and the decoded public inputs, as
\* many and in the order of the request's public_inputs, and the response
\* echoes the request's public_inputs strings.
C9_ValidEchoesInputs ==
    (Answered /\ response.type = "Valid") =>
        /\ response.result = request.public_inputs
        /\ valid_proof_handler =>
               /\ Len(invoked) = 1
               /\ invoked[1].handler = "valid"
               /\ invoked[1].client_id = request.client_id
               /\ Len(invoked[1].inputs) = Len(request.public_inputs)
               /\ \A i \in 1..Len(request.public_inputs) :
                      invoked[1].inputs[i] =
                          FieldFromString(request.public_inputs[i]).val

\* C9 witness: a Valid answer to inputs sent as "05" and "7", with the
\* valid-proof handler invoked.
C9_Witness ==
    /\ Answered
    /\ response.type = "Valid"
    /\ request.public_inputs = << <<"0", "5">>, <<"7">> >>
    /\ CallsOf("valid") # {}

\* the verifier returned false for the request
VerifierSaidFalse ==
    \E i \in 1..Len(verifier_calls) : verifier_calls[i].result = VOk(FALSE)

\* C10 as claimed: when the verifier returned false, the invalid-proof
\* handler was invoked exactly once with the request's client_id and the
\* reason "proof verification failed", and the answer is Invalid with
\* that reason.
C10_InvalidWithClaimedReason ==
    (Answered /\ VerifierSaidFalse /\ invalid_proof_handler) =>
        /\ Cardinality(CallsOf("invalid")) = 1
        /\ \A i \in CallsOf("invalid") :
               /\ invoked[i].client_id = request.client_id
               /\ invoked[i].text = "proof verification failed"
        /\ response = Response(400, "Invalid", <<>>,
                               "proof verification failed")

\* C10 amended: when the verifier returned false, the invalid-proof handler
\* (when registered) was invoked exactly once with the request's client_id
\* and the reason "Proof verification failed", and no other handler was;
\* unless that handler returned an error, the answer is Invalid with status
\* 400 carrying that same non-empty reason.
C10_InvalidWithReason ==
    (Answered /\ VerifierSaidFalse) =>
        /\ IF invalid_proof_handler
           THEN /\ Len(invoked) = 1
                /\ invoked[1].handler = "invalid"
                /\ invoked[1].client_id = request.client_id
                /\ invoked[1].text = "Proof verification failed"
           ELSE invoked = <<>>
        /\ ~OutcomeHandlerFailed =>
               /\ response = Response(400, "Invalid", <<>>,
                                      "Proof verification failed")
               /\ response.text # ""

\* C10 witness: the verifier returned false, the invalid-proof handler
\* returned Ok and the answer is Invalid.
C10_Witness ==
    /\ Answered
    /\ VerifierSaidFalse
    /\ Len(invoked) = 1
    /\ invoked[1].handler = "invalid"
    /\ invoked[1].returned = "Ok"
    /\ response.status = 400


\* the outcome state the request in flight reached (the last one visited)
Outcome == IF visited = <<>> THEN "None" ELSE visited[Len(visited)]

\* the response of a ServerApp whose three handlers are registered and
\* return Ok, for the request in flight
ResponseWithOkHandlers ==
    CASE Outcome = "Valid" ->
             ValidArm(request, inputs, TRUE, "Ok").response
      [] Outcome = "Invalid" ->
             InvalidArm(request, TRUE, "Ok").response
      [] OTHER ->
             IF verifier_calls = <<>> /\ SomeInputUndecodable
             THEN DecodeErrorArm(request, verified.err, TRUE, "Ok").response
             ELSE VerifyErrorArm(request, verified.err, TRUE, "Ok").response

\* C11: as long as no registered handler returns an error, the response
\* (status and payload) is the one a ServerApp with all handlers registered
\* and returning Ok gives, whichever handlers are registered and also when
\* none is; a missing handler never turns a Valid or Invalid outcome into
\* an Error.
C11_MissingHandlerIsNoOp ==
    (Answered /\ \A i \in 1..Len(invoked) : invoked[i].returned = "Ok") =>
        /\ response = ResponseWithOkHandlers
        /\ Outcome \in {"Valid", "Invalid"} => response.type = Outcome

\* C11 witness: a ServerApp without any handler answered Invalid to a
\* rejected proof.
C11_Witness ==
    /\ Answered
    /\ ~valid_proof_handler /\ ~invalid_proof_handler /\ ~error_handler
    /\ Outcome = "Invalid"
    /\ response.type = "Invalid"
    /\ invoked = <<>>


(***************************************************************************)
(* Properties of the example servers.                                      *)
(***************************************************************************)
HandledValid(w) == worker[w].pc = "Done" /\ worker[w].job.kind = "Valid"

\* every product or vector written differed from the one it replaced
FreshEachTime ==
    \A i \in 1..(Len(history) - 1) : history[i] # history[i + 1]

\* the challenge the server started with
FirstChallenge == history[1]

\* C12: on the factorization server, of two concurrently handled valid
\* proofs for the same current product only one rotates the challenge: the
\* product is replaced once, the other handler observes a mismatch.  Stated
\* for runs in which every generated product differs from the one it
\* replaces, so that the second proof can match only by the race.
C12_OnlyFirstProofRotates ==
    program = "factorization" =>
        \A w1, w2 \in Workers :
            ( /\ w1 # w2
              /\ HandledValid(w1) /\ HandledValid(w2)
              /\ AsValue(ProvedProduct(worker[w1].job.ins)) = FirstChallenge
              /\ AsValue(ProvedProduct(worker[w2].job.ins)) = FirstChallenge
              /\ FreshEachTime )
            => ~(worker[w1].wrote /\ worker[w2].wrote)


\* the handler of w took its proof to be about the first challenge vector
ProvedFirstVector(w) ==
    /\ HandledValid(w)
    /\ Len(worker[w].job.ins) >= MatrixWidth
    /\ ProvedVector(worker[w].job.ins, MatrixWidth) = FirstChallenge

\* C13: on the matrix server, of two concurrently handled valid proofs
\* whose proved vector is the same current challenge vector, exactly one
\* replaces the vector.
C13_VectorReplacedOnce ==
    program = "matrix" =>
        \A w1, w2 \in Workers :
            (w1 # w2 /\ ProvedFirstVector(w1) /\ ProvedFirstVector(w2))
            => /\ worker[w1].wrote \/ worker[w2].wrote
               /\ ~(worker[w1].wrote /\ worker[w2].wrote)

\* the comparison and the replacement are one critical section: the vector
\* a handler compares with is the one it replaces, and two handlers both
\* replace only when a generated vector repeats the one it replaced
MatrixCompareAndReplaceAtomic ==
    program = "matrix" =>
        /\ \A w \in Workers :
               worker[w].pc = "Write" =>
                   /\ mutex = w
                   /\ worker[w].expected = worker[w].proved
                   /\ \A i \in 1..MatrixWidth :
                          session[i] \in {worker[w].expected[i],
                                          worker[w].fresh[i]}
        /\ \A w1, w2 \in Workers :
               ( /\ w1 # w2
                 /\ ProvedFirstVector(w1) /\ ProvedFirstVector(w2)
                 /\ FreshEachTime )
               => ~(worker[w1].wrote /\ worker[w2].wrote)


\* the first proved public input, as the handler prints it, is the u64 x
FirstInputIs(ins, x) ==
    /\ ins # <<>>
    /\ ParseU64(FieldToString(ins[1])) # -1
    /\ AsValue(ParseU64(FieldToString(ins[1]))) = x

\* C14: on the factorization server an invocation of the valid-proof
\* handler goes on to replace the product exactly when its first proved
\* public input equals the product it reads as current; then it stores a
\* generated product; with no input, an unparsable or a different first
\* input it ends with the product as it was.
C14_ReplacesIffFirstInputMatches ==
    [][program = "factorization" =>
        \A w \in Workers :
            /\ (worker[w].pc = "Valid" /\ worker'[w].pc # "Valid") =>
                   /\ worker'[w].pc \in {"Write", "Done"}
                   /\ worker'[w].pc = "Write"
                          <=> FirstInputIs(worker[w].job.ins, session)
                   /\ session' = session
                   /\ ~worker'[w].wrote
            /\ (worker[w].pc = "Write" /\ worker'[w].pc # "Write") =>
                   /\ worker'[w].pc = "Done" /\ worker'[w].wrote
                   /\ \E p \in Products : session' = AsValue(p)
            /\ worker[w].pc = "Done" => worker'[w] = worker[w]
      ]_allvars

C14_Witness ==
    /\ program = "factorization"
    /\ \E w \in Workers :
           /\ HandledValid(w) /\ worker[w].wrote
           /\ FirstInputIs(worker[w].job.ins, FirstChallenge)
           /\ session = worker[w].fresh
    /\ \E w \in Workers :
           /\ HandledValid(w) /\ ~worker[w].wrote
           /\ worker[w].job.ins = <<12, FirstChallenge[1]>>


\* the step is one of worker w
StepOf(w) == worker'[w] # worker[w]

\* C15: the session state of the example servers changes only in a step of
\* a valid-proof handler that found its proof to match; the steps of a
\* request whose outcome is Invalid or Error, and those of a read of the
\* challenge, leave it as it is.
C15_OnlyValidHandlerChangesSession ==
    [][ /\ session' # session =>
               \E w \in Workers :
                   /\ StepOf(w)
                   /\ worker[w].job.kind = "Valid"
                   /\ worker[w].pc = "Write"
        /\ \A w \in Workers :
               ( /\ StepOf(w)
                 /\ worker'[w].job.kind \in {"Invalid", "Error", "Challenge"} )
               => session' = session /\ history' = history
      ]_allvars

C15_Witness ==
    /\ \E w \in Workers :
           worker[w].pc = "Done" /\ worker[w].job.kind \in {"Invalid", "Error"}
    /\ \E w \in Workers :
           /\ worker[w].pc = "Done" /\ worker[w].job.kind = "Challenge"
           /\ worker[w].copy = session
    /\ history = << session >>

\* the challenges that were replaced
Solved == { history[i] : i \in 1..(Len(history) - 1) }

\* C16: once a challenge has been rotated away, a valid proof over it that
\* is handled later is a mismatch: its handler does not go on to replace
\* the challenge.
C16_SolvedChallengeIsStale ==
    [][\A w \in Workers :
           ( /\ worker[w].pc \in {"Valid", "Compare"}
             /\ worker'[w].pc = "Write" )
           => worker'[w].proved \notin Solved
      ]_allvars


\* C17: on the matrix server a valid proof made by
\* MatrixMultiplicationCircuit over the vector that is current when the
\* handler compares is found to match, and the vector is rotated.
C17_CircuitProofOverCurrentVectorRotates ==
    program = "matrix" =>
        \A w \in Workers :
            ( /\ HandledValid(w)
              /\ \E h \in MatrixHashes :
                     worker[w].job.ins =
                         CircuitPublicInputs(h, worker[w].expected) )
            => worker[w].wrote


\* the values the session had so far
Generations == { history[i] : i \in 1..Len(history) }

\* C18: what a read of the challenge returns, in the challenge endpoint or
\* in a valid-proof handler, is one of the values the session had, whole:
\* never a vector with elements of two generations.
C18_ReadsAreSnapshots ==
    \A w \in Workers :
        /\ ( /\ worker[w].job.kind = "Challenge"
             /\ worker[w].pc \in {"Unlock", "Done"} )
           => worker[w].copy \in Generations
        /\ ( /\ worker[w].job.kind = "Valid"
             /\ worker[w].pc \in {"Write", "Unlock", "Done"}
             /\ worker[w].expected # <<>> )
           => worker[w].expected \in Generations

C18_Witness ==
    /\ program = "matrix"
    /\ Len(history) = 2
    /\ \A i \in 1..MatrixWidth : history[1][i] # history[2][i]
    /\ \E r, v \in Workers :
           /\ worker[r].job.kind = "Challenge" /\ worker[r].pc = "Done"
           /\ worker[r].copy = history[2]
           /\ worker[v].wrote /\ worker[v].expected = history[1]


(***************************************************************************)
(* Properties of the circuit context and of the client.                    *)
(***************************************************************************)
\* the values of the successful new_public_input calls, in call order
RECURSIVE DeclaredInputs(_)
DeclaredInputs(cc) ==
    IF cc = <<>> THEN <<>>
    ELSE LET c == Head(cc)
         IN  IF c.op = "new_public_input" /\ c.f.ok
             THEN << c.f.val >> \o DeclaredInputs(Tail(cc))
             ELSE DeclaredInputs(Tail(cc))

IsPrefix(s, t) == Len(s) <= Len(t) /\ SubSeq(t, 1, Len(s)) = s

C20_DecodedInputsAreTheLog ==
    client_pc = "Decoded" =>
        /\ decoded.ok
        /\ Len(decoded.val) = Len(ctx_public_inputs)
        /\ \A i \in 1..Len(ctx_public_inputs) :
               decoded.val[i] = ctx_public_inputs[i]

C20_Witness ==
    /\ client_pc = "Decoded"
    /\ decoded.ok
    /\ decoded.val = << 12, 0, 10 >>
    /\ ctx_public_inputs = << 12, 0, 10 >>
    /\ sent = << <<"1", "2">>, <<"0">>, <<"1", "0">> >>


(***************************************************************************)
(* Properties of the encoding of field elements.                           *)
(***************************************************************************)
\* C21: every field element, zero and the largest one included, written
\* by field_to_string is read back by field_from_string as itself.
C21_RoundTrip ==
    client_pc \in {"Sent", "Decoded"} =>
        /\ Len(sent) = Len(shared_inputs)
        /\ \A i \in 1..Len(shared_inputs) :
               FieldFromString(sent[i]) = Ok(shared_inputs[i])

C21_Witness ==
    /\ client_pc = "Sent"
    /\ shared_inputs = << 0, Modulus - 1, 10 >>
    /\ sent = << <<"0">>, <<"1", "2">>, <<"1", "0">> >>

\* C22: a string that field_from_string accepts is the one field_to_string
\* writes for the decoded element, so no two accepted strings decode to
\* the same element.
C22_AcceptedStringsAreCanonical ==
    pc = "Verifying" =>
        \A i \in 1..Len(inputs) :
            FieldToString(inputs[i]) = request.public_inputs[i]


(***************************************************************************)
(* Properties of keys and start-up.                                        *)
(***************************************************************************)
\* the file holds a verifying key in the layout the server reads
HoldsVerifyingKey(file) ==
    file.layout = "uncompressed" /\ file.key.kind = "vk"

\* C23: ServerApp::new on a missing file, or on bytes that do not
\* deserialize, gives an error and no ServerApp, which never listens;
\* a ServerApp that exists, and so every one that accepts requests, holds
\* the verifying key that was read.
C23_NoServerWithoutKey ==
    /\ [](server_app.state \in {"Built", "Listening", "Stopped"}
              => server_app.verification_key.kind = "vk")
    /\ [](server_app.accepted > 0 =>
              /\ server_app.state = "Listening"
              /\ server_app.verification_key.kind = "vk")
    /\ [][ /\ (server_app.state = "None" /\ server_app'.state # "None") =>
                  IF HoldsVerifyingKey(files.vk)
                  THEN /\ server_app'.state = "Built"
                       /\ server_app'.verification_key = files.vk.key
                  ELSE /\ server_app'.state = "Failed"
                       /\ server_app'.verification_key = NoKey
           /\ server_app.state = "Failed" => server_app' = server_app
         ]_allvars

C23_Witness ==
    /\ server_app.state = "Failed"
    /\ files.vk = Garbage
    /\ client_app.pc = "Returned"
    /\ client_app.result = Err(E_TRANSPORT)
    /\ wire.transmitted = 1


\* C24: nothing is transmitted unless the proving key was loaded and the
\* proof was generated: a call on a ClientApp without key, or one whose
\* prover fails, returns that error with nothing sent.
C24_NoTransmissionWithoutKeyAndProof ==
    /\ wire.transmitted > 0 =>
           /\ client_app.proving_key.kind = "pk"
           /\ client_app.pc \in {"Sent", "Returned"}
    /\ (client_app.proving_key = NoKey /\ client_app.pc # "Idle") =>
           /\ client_app.pc = "Returned"
           /\ client_app.result = Err(E_KEY_NOT_LOADED)
    /\ ( /\ client_app.pc = "Returned"
         /\ client_app.result \in {Err(E_KEY_NOT_LOADED), Err(E_PROVER)} )
       => wire.transmitted = 0

C24_Witness ==
    /\ server_app.state = "Listening"
    /\ files.pk = Garbage
    /\ client_app.state = "Built" /\ client_app.proving_key = NoKey
    /\ client_app.pc = "Returned"
    /\ client_app.result = Err(E_KEY_NOT_LOADED)
    /\ wire.transmitted = 0

\* C25: an answer of the server that is not one of the tagged outcomes
\* Valid, Invalid, Error is not returned to the caller as a success.
C25_MalformedAnswerIsAnError ==
    (client_app.pc = "Returned" /\ client_app.result.ok)
        => client_app.result.val \in TaggedBodies

\* C26: the request the client builds carries a client_id, so that the
\* handler of the server can be given the identity of the sender.
C26_RequestCarriesClientId ==
    client_pc \in {"Sent", "Decoded"} => "client_id" \in DOMAIN proof_request

\* C27: while the key files are the ones generate_keys_to_files wrote for
\* a key pair, ServerApp::new succeeds and holds the verifying key of that
\* pair, and load_proving_key succeeds and stores its proving key.
C27_GeneratedKeysReadBack ==
    [][\A k \in KeyIds : files.generated = k =>
          /\ (server_app.state = "None" /\ server_app'.state # "None") =>
                 /\ server_app'.state = "Built"
                 /\ server_app'.verification_key = VerifyingKeyOf(k)
          /\ ( /\ client_app.state = "Built"
               /\ client_app.proving_key = NoKey
               /\ \/ client_app'.proving_key # NoKey
                  \/ client_app'.state = "KeyFailed" ) =>
                 /\ client_app'.state = "Built"
                 /\ client_app'.proving_key = ProvingKey(k)]_allvars

C27_Witness ==
    /\ files.generated = "k2"
    /\ server_app.state = "Built"
    /\ server_app.verification_key = VerifyingKeyOf("k2")
    /\ client_app.state = "Built"
    /\ client_app.proving_key = ProvingKey("k2")

RequestFields == {"client_id", "proof", "public_inputs"}

\* C28: the public_inputs of the request are determined by the successful
\* new_public_input calls alone, so that two runs that differ only in
\* their new_witness values build the same public_inputs, and the request
\* has no field besides client_id, proof and public_inputs.
C28_WitnessesStayWithClient ==
    client_pc \in {"Sent", "Decoded"} =>
        /\ proof_request.public_inputs =
               LET declared == DeclaredInputs(calls)
               IN  [i \in 1..Len(declared) |-> ToDecimal(declared[i])]
        /\ sent = proof_request.public_inputs
        /\ DOMAIN proof_request \subseteq RequestFields

C28_Witness ==
    /\ client_pc = "Sent"
    /\ calls = << ContextCall("new_witness", Ok(3)),
                  ContextCall("new_public_input", Ok(5)),
                  ContextCall("new_witness", Ok(11)) >>
    /\ proof_request.public_inputs = << << "5" >> >>

\* the shape of a run of a generator: its calls on the context in order,
\* each by whether it declares a public input or a witness
Shape(cc) == [i \in 1..Len(cc) |-> cc[i].op]

\* C29: the calls a provided generator made for an instance have the same
\* number, order and public/private classification as the calls it makes
\* for the zero-valued instance the keys are set up from (for the matrix
\* circuit: the zero instance of the same dimensions).
C29_ProvidedShapesAreFixed ==
    (circuit # CustomCircuit /\ client_pc \in {"Proved", "Sent", "Decoded"})
        => /\ Shape(calls) = Shape(GeneratorCalls(ZeroInstance(circuit)))
           /\ \A i \in 1..Len(calls) : calls[i].f.ok

C29_Witness ==
    /\ client_pc = "Proved"
    /\ circuit.kind = "matrix"
    /\ circuit.private_matrix = << << 1, 0 >>, << 1, 1 >> >>
    /\ circuit.public_vector = << 1, 1 >>
    /\ circuit.result = << 1, 2 >>
    /\ Shape(calls) =
           << "new_public_input",
              "new_witness", "new_witness", "new_witness", "new_witness",
              "new_public_input", "new_public_input",
              "new_public_input", "new_public_input",
              "new_witness", "new_witness" >>

\* C30: for the factorization instance with correct factors (scaled to
\* the field of the model: p1 = 2, p2 = 3, product = 6) the server answers
\* Valid with the encodings of p1, p2 and the product as result, and the
\* valid-proof handler was invoked exactly once.
C30_FactorsReturnedAsResult ==
    (circuit = FactorizationCircuit(2, 3, 6) /\ client_pc = "Answered") =>
        /\ response.type = "Valid"
        /\ response.result = << << "2" >>, << "3" >>, << "6" >> >>
        /\ Len(SelectSeq(invoked, LAMBDA c : c.handler = "valid")) = 1

\* the outcome states a request went through
Outcomes(states) ==
    SelectSeq(states, LAMBDA s : s \in {"Valid", "Invalid", "Error"})

\* the steps at which a task of the matrix server holds the guard of the
\* challenge mutex (the factorization handler takes the lock for single
\* statements)
Holding == {"Compare", "Write", "Copy", "Unlock"}

\* C31: a request that entered the pipeline is taken to Idle again, having
\* gone through exactly one of Valid, Invalid, Error and having got one
\* response, which is not replaced; on the example servers every request a
\* worker accepted is finished, whatever the other worker does (a handler
\* that panics on fewer inputs than the vector has does not return), the
\* mutex is held only between its acquisition and its release, and no task
\* waits for the mutex while holding it.
C31_EveryRequestIsAnswered ==
    /\ (pc = "Decoding") ~> (pc = "Idle")
    /\ []((pc = "Responded" /\ payload.kind = "json") =>
              /\ Len(Outcomes(visited)) = 1
              /\ response # NoResponse)
    /\ [][response # NoResponse => response' \in {response, NoResponse}
         ]_allvars
    /\ \A w \in Workers :
           (worker[w].pc \notin {"Off", "Idle"})
               ~> (worker[w].pc \in {"Done", "Panicked"})
    /\ [](\A w \in Workers :
              /\ program = "matrix" =>
                     ((mutex = w) <=> (worker[w].pc \in Holding))
              /\ worker[w].pc = "Panicked" =>
                     Len(worker[w].job.ins) < MatrixWidth)

C31_Witness ==
    /\ program = "matrix"
    /\ \A w \in Workers :
           /\ worker[w].job.kind = "Valid"
           /\ worker[w].pc = "Done"
           /\ worker[w].wrote
    /\ mutex = "free"
    /\ Len(history) = 3

\* C32: when the verifier returned false and the registered invalid-proof
\* handler returned an error, the answer is Error with status 500 and the
\* handler's error, not Invalid, and the invalid-proof handler is the only
\* handler that was invoked.
C32_InvalidHandlerFailureIsError ==
    ( /\ Answered
      /\ VerifierSaidFalse
      /\ \E i \in 1..Len(invoked) :
             invoked[i].handler = "invalid" /\ invoked[i].returned = "Err" )
    => /\ response = Response(500, "Error", <<>>, E_INVALID_HANDLER)
       /\ Len(invoked) = 1
       /\ CallsOf("error") = {}

C32_Witness ==
    /\ Answered
    /\ VerifierSaidFalse
    /\ error_handler
    /\ Len(invoked) = 1
    /\ invoked[1].handler = "invalid"
    /\ invoked[1].returned = "Err"
    /\ response.status = 500

\* the errors of the input decoding and of app.verify
PipelineErrors == {E_DECIMAL, E_FIELD, E_BASE64, E_PROOF, E_VERIFIER}

\* C33: when the error handler returned an error, the answer is still Error
\* with status 500 carrying the decode or verification error the handler
\* was called with, and no other handler was invoked.
C33_ErrorHandlerFailureIsSwallowed ==
    ( /\ Answered
      /\ \E i \in 1..Len(invoked) :
             invoked[i].handler = "error" /\ invoked[i].returned = "Err" )
    => /\ ~verified.ok
       /\ verified.err \in PipelineErrors
       /\ response = Response(500, "Error", <<>>, verified.err)
       /\ Len(invoked) = 1
       /\ invoked[1].text = verified.err

C33_Witness ==
    /\ Answered
    /\ Len(verifier_calls) = 1
    /\ verified = VErr(E_VERIFIER)
    /\ Len(invoked) = 1
    /\ invoked[1].handler = "error"
    /\ invoked[1].returned = "Err"
    /\ response = Response(500, "Error", <<>>, E_VERIFIER)

\* the valid-proof handler of a worker has returned and the inputs of its
\* proof were not the challenge it compared them with
Mismatched(w) ==
    /\ worker[w].job.kind = "Valid"
    /\ worker[w].pc = "Done"
    /\ worker[w].proved = <<>> \/ worker[w].proved # worker[w].expected

\* C34: a verified proof whose inputs do not match the challenge is
\* answered Valid with status 200 and the inputs as sent: the handler
\* returned Ok without writing, and the challenge is changed only by a
\* worker that is in its writing step.
C34_MismatchIsStillValid ==
    /\ [](\A w \in Workers :
              Mismatched(w) =>
                  /\ ~worker[w].wrote
                  /\ HandlerResult(w) = "Ok"
                  /\ WorkerResponse(w) =
                         Response(200, "Valid",
                                  StringInputs(worker[w].job.ins), ""))
    /\ [][session' # session =>
              \E w \in Workers :
                  worker[w].pc = "Write" /\ worker'[w] # worker[w]
         ]_allvars

C34_Witness ==
    /\ program = "factorization"
    /\ Mismatched("w1")
    /\ worker["w1"].proved = AsValue(4)
    /\ worker["w1"].expected = AsValue(6)
    /\ session = AsValue(6)
    /\ history = << AsValue(6) >>
    /\ WorkerResponse("w1").status = 200


\* C35: generate_and_send_proof generates, then persists, then transmits:
\* a request goes on the wire only from the step after a successful save,
\* when the proof path already holds it; what was persisted is what is
\* transmitted; and a call that failed to persist has transmitted nothing.
C35_PersistedBeforeTransmitted ==
    /\ [][wire'.transmitted # wire.transmitted =>
              /\ client_app.pc = "Saved"
              /\ files.proof = ToJson(client_app.request)
              /\ wire'.request = files.proof
              /\ files' = files]_allvars
    /\ [](wire.transmitted > 0 =>
              /\ client_app.request \in RequestIds
              /\ files.proof = wire.request)
    /\ [](client_app.pc = "Generated" => wire.transmitted = 0)
    /\ []((client_app.pc = "Returned" /\ client_app.result = Err(E_IO)) =>
              /\ wire.transmitted = 0
              /\ wire.request = "none")

C35_Witness ==
    /\ client_app.pc = "Returned"
    /\ client_app.result = Ok("Valid")
    /\ client_app.request = "r2"
    /\ wire.transmitted = 1
    /\ wire.request = ToJson("r2")
    /\ files.proof = ToJson("r2")


\* C36: the first revision's codec round-trips: every field element v, zero
\* included, is read back from its string, field_from_string(
\* field_to_string(v)) = v, so the server decodes the inputs the client
\* stored.
C36_LegacyRoundTrip ==
    legacy.pc = "Decoded" =>
        /\ legacy.inputs = Ok(legacy.public_inputs)
        /\ \A i \in 1..Len(legacy.public_inputs) :
               LegacyFieldFromString(legacy.strings[i])
                   = Ok(legacy.public_inputs[i])

====
